---- MODULE Spec2Model ----
(***************************************************************************)
(* A model of the cross-platform resource adapter layer of git_mcp:        *)
(* GitHubAdapter (src/git_mcp/platforms/github.py) and GitLabAdapter       *)
(* (src/git_mcp/platforms/gitlab.py) behind the PlatformAdapter contract   *)
(* (src/git_mcp/platforms/base.py).                                        *)
(*                                                                         *)
(* One adapter instance is modelled.  Every public method is one action:   *)
(* the lazy authentication at its head, the native SDK calls of its body   *)
(* (whose answers are drawn from small sets), and its except clauses.      *)
(* The record `last` holds the call that has just returned or raised.      *)
(***************************************************************************)
EXTENDS Integers, Sequences, FiniteSets, TLC

VARIABLES
    adapter,    \* the adapter instance: platform, token, username, client, _authenticated
    authCalls,  \* number of times authenticate() has been invoked on the instance
    last,       \* the public method call that has just finished, with its outcome
    remote,     \* the remote store behind the SDK: issues and merge requests per project
    tasks,      \* the calls running concurrently: each one's position and what it read
    LoggingConfig   \* the class attributes of core/logging.py's LoggingConfig

vars == <<adapter, authCalls, last, remote, tasks, LoggingConfig>>

(***************************************************************************)
(* Bounds of the model.                                                    *)
(***************************************************************************)
MaxRefLen == 4      \* longest branch reference string
MaxCalls == 2       \* most authenticate() invocations counted on one instance
MaxItems == 2       \* most issues and merge requests held by the remote store
MaxTasks == 2       \* most calls running concurrently on one adapter instance
MaxThreads == 3     \* most threads constructing LoggingConfig concurrently

Platforms == {"github", "gitlab"}

\* The branch references parsed: strings are sequences of characters, two
\* ordinary ones and the separator.
Refs == UNION {[1..k -> {"a", "b", ":"}] : k \in 0..MaxRefLen}

NoCall == [op |-> "none"]

NoRemote == [issues |-> <<>>, mrs |-> <<>>]

\* LoggingConfig as the class statement leaves it: _instance = None (0),
\* _initialized = False, no instance made yet.
LoggingConfigClass == [instance |-> 0, initialized |-> FALSE, made |-> 0]

(***************************************************************************)
(* parse_branch_reference                                                  *)
(***************************************************************************)

\* Python: ":" in branch_ref
HasColon(s) == \E i \in 1..Len(s) : s[i] = ":"

\* Python: branch_ref.split(":", 1) on a string that holds a colon: the text
\* before the first colon and all the text after it.
SplitFirst(s) ==
    LET i == CHOOSE k \in 1..Len(s) : s[k] = ":" /\ \A j \in 1..(k - 1) : s[j] # ":"
    IN  <<SubSeq(s, 1, i - 1), SubSeq(s, i + 1, Len(s))>>

\* Python's None as a returned value.
None == [none |-> TRUE]

\* A value that is a string or a list where the code accepts either or None,
\* told apart as Python's isinstance does.
StrVal(s) == [str |-> s]
ListVal(l) == [list |-> l]

\* Python: isinstance(value, str)
IsStr(value) == "str" \in DOMAIN value

Return(v) == [kind |-> "return", value |-> v]
Raise(e) == [kind |-> "raise", exc |-> e]

\* A plausible slip: the emptiness check of the parts is dropped.
GitHubParseNoPartCheck(branch_ref) ==
    IF HasColon(branch_ref)
    THEN LET parts == SplitFirst(branch_ref)
         IN  Return([owner |-> parts[1], branch |-> parts[2], is_cross_repo |-> TRUE])
    ELSE IF branch_ref = <<>>
         THEN Raise("ValueError")
         ELSE Return([branch |-> branch_ref, is_cross_repo |-> FALSE])

\* Variant of GitLabParseBranchReference that keeps the project part in the
\* branch name.
GitLabParseKeepsProject(branch_ref) ==
    IF branch_ref = <<>> THEN Raise("ValueError")
    ELSE Return([branch |-> branch_ref, is_cross_project |-> HasColon(branch_ref)])

GitHubParseBranchReference(branch_ref) ==
    IF HasColon(branch_ref)
    THEN LET parts == SplitFirst(branch_ref)
         IN  IF Len(parts) # 2
             THEN Raise("ValueError")
             ELSE IF parts[1] = <<>> \/ parts[2] = <<>>
                  THEN Raise("ValueError")
                  ELSE Return([owner |-> parts[1], branch |-> parts[2],
                               is_cross_repo |-> TRUE])
    ELSE IF branch_ref = <<>>
         THEN Raise("ValueError")
         ELSE Return([branch |-> branch_ref, is_cross_repo |-> FALSE])

GitLabParseBranchReference(branch_ref) ==
    IF HasColon(branch_ref)
    THEN LET parts == SplitFirst(branch_ref)
         IN  IF Len(parts) # 2
             THEN Raise("ValueError")
             ELSE IF parts[1] = <<>> \/ parts[2] = <<>>
                  THEN Raise("ValueError")
                  ELSE Return([project |-> parts[1], branch |-> parts[2],
                               is_cross_project |-> TRUE])
    ELSE IF branch_ref = <<>>
         THEN Raise("ValueError")
         ELSE Return([branch |-> branch_ref, is_cross_project |-> FALSE])

parse_branch_reference(platform, branch_ref) ==
    IF platform = "github"
    THEN GitHubParseBranchReference(branch_ref)
    ELSE GitLabParseBranchReference(branch_ref)

\* A freshly constructed adapter (PlatformAdapter.__init__ and the subclass __init__).
NewAdapter(platform, hasToken) ==
    [platform |-> platform, token |-> hasToken, username |-> "me",
     client |-> FALSE, authed |-> FALSE]

\* The public method parse_branch_reference called on the instance.
ParseBranchReference ==
    \E ref \in Refs :
        /\ last' = [op |-> "parse_branch_reference", ref |-> ref,
                    out |-> parse_branch_reference(adapter.platform, ref)]
        /\ UNCHANGED <<adapter, authCalls, remote, tasks, LoggingConfig>>

InitParse ==
    /\ adapter \in {NewAdapter(p, t) : p \in Platforms, t \in BOOLEAN}
    /\ authCalls = 0
    /\ last = NoCall
    /\ remote = NoRemote
    /\ tasks = <<>>
    /\ LoggingConfig = LoggingConfigClass

SpecParse == InitParse /\ [][ParseBranchReference]_vars

Parsed == last.op = "parse_branch_reference"

\* The owner (GitHub) or project (GitLab) part of a parsed reference, if any.
HasOwnerPart(v) == "owner" \in DOMAIN v \/ "project" \in DOMAIN v
OwnerPart(v) == IF "owner" \in DOMAIN v THEN v.owner ELSE v.project

\* 'X:Y' with X the text before the first colon, both parts non-empty.
IsQualified(ref) ==
    HasColon(ref) /\ SplitFirst(ref)[1] # <<>> /\ SplitFirst(ref)[2] # <<>>

\* C1 (as stated): on both adapters a reference X:Y with non-empty parts parses
\* to a mapping with owner/project part X, branch Y and is_cross_repo = TRUE; a
\* non-empty reference without a colon parses to a mapping with that branch,
\* is_cross_repo = FALSE and no owner/project part.
C1_ParseMapping ==
    Parsed =>
        /\ IsQualified(last.ref) =>
              /\ last.out.kind = "return"
              /\ HasOwnerPart(last.out.value)
              /\ OwnerPart(last.out.value) = SplitFirst(last.ref)[1]
              /\ last.out.value.branch = SplitFirst(last.ref)[2]
              /\ "is_cross_repo" \in DOMAIN last.out.value
              /\ last.out.value.is_cross_repo = TRUE
        /\ (last.ref # <<>> /\ ~HasColon(last.ref)) =>
              /\ last.out.kind = "return"
              /\ ~HasOwnerPart(last.out.value)
              /\ last.out.value.branch = last.ref
              /\ "is_cross_repo" \in DOMAIN last.out.value
              /\ last.out.value.is_cross_repo = FALSE

\* C2: on both adapters the empty reference, a reference with nothing before
\* its first colon and a reference with nothing after its first colon raise
\* ValueError and return no mapping.
C2_ParseRejects ==
    (Parsed /\ (\/ last.ref = <<>>
                \/ (HasColon(last.ref) /\ SplitFirst(last.ref)[1] = <<>>)
                \/ (HasColon(last.ref) /\ SplitFirst(last.ref)[2] = <<>>)))
        => (last.out.kind = "raise" /\ last.out.exc = "ValueError")

\* Witness of C2: both adapters have rejected ':b'-like and 'a:'-like references.
C2_Witness ==
    /\ Parsed
    /\ adapter.platform = "gitlab"
    /\ last.ref = <<"a", ":">>
    /\ last.out.kind = "raise"

\* C18 (as stated): on both adapters parse_branch_reference raises ValueError
\* for every reference that holds two or more colons.
C18_TwoColonsRejected ==
    (Parsed /\ Cardinality({i \in 1..Len(last.ref) : last.ref[i] = ":"}) >= 2)
        => (last.out.kind = "raise" /\ last.out.exc = "ValueError")

(***************************************************************************)
(* Native SDK answers.  A native call either answers with an object or     *)
(* raises the SDK's exception (GithubException with .status, GitlabError   *)
(* with .response_code and a message).  Python steps inside a method       *)
(* (int(), the _convert_to_* helpers) either succeed or raise a Python     *)
(* exception.                                                              *)
(***************************************************************************)
OkAns(obj) == [ok |-> TRUE, exc |-> "none", status |-> 200, mentions404 |-> FALSE, obj |-> obj]

SdkErr(platform, status, mentions404) ==
    [ok |-> FALSE, exc |-> IF platform = "github" THEN "GithubException" ELSE "GitlabError",
     status |-> status, mentions404 |-> mentions404, obj |-> "none"]

PyErr(name) == [ok |-> FALSE, exc |-> name, status |-> 0, mentions404 |-> FALSE, obj |-> "none"]

NotFound(platform) == SdkErr(platform, 404, TRUE)

\* The SDK errors drawn by the environment: not found, and a server error
\* whose message does or does not hold the text "404".  GitLab's 404 message
\* is "404 Project Not Found", so a 404 always mentions it.
SdkErrors(platform) ==
    {NotFound(platform), SdkErr(platform, 500, FALSE), SdkErr(platform, 500, TRUE)}

IsSdk(ans) == ans.exc \in {"GithubException", "GitlabError"}

NoParams == [k \in {} |-> k]

\* One step of a method body: a native call (logged with its parameters and
\* the answer it got) or a Python step.
Native(api, params, ans) == [api |-> api, native |-> TRUE, params |-> params, ans |-> ans]
Python(api, ans) == [api |-> api, native |-> FALSE, params |-> NoParams, ans |-> ans]

\* Index of the first step of a try body that raises, 0 when none does.
FirstFail(plan) ==
    IF \E i \in 1..Len(plan) : ~plan[i].ans.ok
    THEN CHOOSE i \in 1..Len(plan) :
            ~plan[i].ans.ok /\ \A j \in 1..(i - 1) : plan[j].ans.ok
    ELSE 0

\* The steps that run: all of them, or those up to the one that raises.
Ran(plan) == IF FirstFail(plan) = 0 THEN plan ELSE SubSeq(plan, 1, FirstFail(plan))

\* The native calls among the given steps, in order, each logged with its
\* parameters and how it was answered.
RECURSIVE NativeCalls(_)
NativeCalls(steps) ==
    IF steps = <<>> THEN <<>>
    ELSE LET step == Head(steps)
         IN  (IF step.native
              THEN <<[api |-> step.api, params |-> step.params, ok |-> step.ans.ok,
                      status |-> step.ans.status, mentions404 |-> step.ans.mentions404]>>
              ELSE <<>>) \o NativeCalls(Tail(steps))

\* The outcome of a method whose body is the plan.
Done(res, plan) == [res |-> res, calls |-> NativeCalls(Ran(plan))]

(***************************************************************************)
(* The except clauses of the adapters, applied to the step that raised.    *)
(***************************************************************************)

\* except <SDK error> as e: raise PlatformError(...)
\* Anything that is not the SDK's exception class is not caught.
ExceptPlatformError(ans) ==
    IF IsSdk(ans) THEN Raise("PlatformError") ELSE Raise(ans.exc)

\* Variant of ExceptNoneOn404 without the 404 branch: every SDK error becomes
\* PlatformError.
ExceptNoneOn404Dropped(ans) ==
    IF IsSdk(ans) THEN Raise("PlatformError") ELSE Raise(ans.exc)

\* except <SDK error> as e: if e.status == 404: return None; raise PlatformError(...)
ExceptNoneOn404(ans) ==
    IF IsSdk(ans)
    THEN IF ans.status = 404 THEN Return(None) ELSE Raise("PlatformError")
    ELSE Raise(ans.exc)

\* except <SDK error> as e: if e.status == 404: raise ResourceNotFoundError(...);
\* raise PlatformError(...)
ExceptNotFoundOn404(ans) ==
    IF IsSdk(ans)
    THEN IF ans.status = 404 THEN Raise("ResourceNotFoundError") ELSE Raise("PlatformError")
    ELSE Raise(ans.exc)

\* except GitlabError as e: if "404" in str(e): raise ResourceNotFoundError(...);
\* raise PlatformError(...)
\* python-gitlab: str(GitlabError) is "<response_code>: <error_message>".
ExceptNotFoundOnStr404(ans) ==
    IF IsSdk(ans)
    THEN IF ans.status = 404 \/ ans.mentions404
         THEN Raise("ResourceNotFoundError") ELSE Raise("PlatformError")
    ELSE Raise(ans.exc)

\* except ValueError: raise PlatformError(...) / except GithubException: raise PlatformError(...)
ExceptValueErrorAndSdk(ans) ==
    IF IsSdk(ans) \/ ans.exc = "ValueError" THEN Raise("PlatformError") ELSE Raise(ans.exc)

(***************************************************************************)
(* authenticate                                                            *)
(***************************************************************************)
AuthAnswers == {"ok", "bad_credentials", "error", "no_client"}

\* authenticate() on adapter a, the SDK answering ans:
\*   "ok"               the verifying call succeeds
\*   "bad_credentials"  it raises BadCredentialsException / GitlabAuthenticationError
\*   "error"            it raises anything else
\*   "no_client"        constructing the SDK client already raises
\* The client handle is assigned before the verifying call.
\* Variant of GitHubAuthenticate that verifies the token with a local client
\* and never stores the handle on the instance.
GitHubAuthenticateNoHandle(a, ans) ==
    IF ~a.token
    THEN [a |-> a, res |-> Raise("AuthenticationError")]
    ELSE IF ans = "ok"
         THEN [a |-> [a EXCEPT !.authed = TRUE], res |-> Return(TRUE)]
         ELSE IF ans = "bad_credentials"
              THEN [a |-> a, res |-> Raise("AuthenticationError")]
              ELSE [a |-> a, res |-> Raise("NetworkError")]

GitHubAuthenticate(a, ans) ==
    IF ~a.token
    THEN [a |-> a, res |-> Raise("AuthenticationError")]
    ELSE IF ans = "no_client"
         THEN [a |-> a, res |-> Raise("NetworkError")]
         ELSE IF ans = "ok"
              THEN [a |-> [a EXCEPT !.client = TRUE, !.authed = TRUE], res |-> Return(TRUE)]
              ELSE IF ans = "bad_credentials"
                   THEN [a |-> [a EXCEPT !.client = TRUE], res |-> Raise("AuthenticationError")]
                   ELSE [a |-> [a EXCEPT !.client = TRUE], res |-> Raise("NetworkError")]

GitLabAuthenticate(a, ans) ==
    IF ~a.token
    THEN [a |-> a, res |-> Raise("AuthenticationError")]
    ELSE IF ans = "no_client"
         THEN [a |-> a, res |-> Raise("NetworkError")]
         ELSE IF ans = "ok"
              THEN [a |-> [a EXCEPT !.client = TRUE, !.authed = TRUE], res |-> Return(TRUE)]
              ELSE IF ans = "bad_credentials"
                   THEN [a |-> [a EXCEPT !.client = TRUE], res |-> Raise("AuthenticationError")]
                   ELSE [a |-> [a EXCEPT !.client = TRUE], res |-> Raise("NetworkError")]

authenticate(a, ans) ==
    IF a.platform = "github" THEN GitHubAuthenticate(a, ans) ELSE GitLabAuthenticate(a, ans)

(***************************************************************************)
(* Identifiers are strings; int() and str() convert as Python does.        *)
(***************************************************************************)
Digits == <<"0", "1", "2", "3", "4", "5", "6", "7", "8", "9">>

\* Python: int(s) succeeds (for the strings drawn: s is made of digits)
IsNumeric(s) == Len(s) > 0 /\ \A i \in 1..Len(s) : \E d \in 1..Len(Digits) : Digits[d] = s[i]

\* Python: int(s), for a string of decimal digits
RECURSIVE IntOf(_)
IntOf(s) ==
    IF Len(s) = 0 THEN 0
    ELSE 10 * IntOf(SubSeq(s, 1, Len(s) - 1))
             + (CHOOSE d \in 1..Len(Digits) : Digits[d] = s[Len(s)]) - 1

\* Python: str(n), for n >= 0
RECURSIVE StrOf(_)
StrOf(n) ==
    IF n < 10 THEN <<Digits[n + 1]>>
    ELSE StrOf(n \div 10) \o <<Digits[(n % 10) + 1]>>

\* The step int(s): succeeds, or raises ValueError for a non-numeric string.
IntStep(s) == Python("int", IF IsNumeric(s) THEN OkAns(IntOf(s)) ELSE PyErr("ValueError"))

(***************************************************************************)
(* The environment of a method call.  A world w gives the answer of every  *)
(* native call and Python step the method makes, by slot:                  *)
(*   w.mode = "drawn": the answers are the ones drawn in w.ans;            *)
(*   w.mode = "store": a slot whose drawn answer is an error raises it,    *)
(*                     every other native call is answered by the remote   *)
(*                     store w.remote.                                     *)
(***************************************************************************)
Slots == {"project", "project2", "issue", "mr", "comments", "files", "commits",
          "new_issue", "new_mr", "issues", "mrs", "act", "br_src", "br_tgt",
          "users", "conv"}

\* A project that is a fork of project 2.
SampleFork == [id |-> <<"1">>, fork |-> TRUE, parent |-> <<"2">>]

GitHubIssueObj(number, title) ==
    [number |-> number, title |-> title, state |-> "open", assignee |-> "None"]

GitLabIssueObj(iid, title, project_id) ==
    [iid |-> iid, title |-> title, state |-> "opened", assignee |-> "None",
     project_id |-> project_id]

GitHubPrObj(number, title, head, base) ==
    [number |-> number, title |-> title, state |-> "open", merged |-> FALSE,
     head |-> head, base |-> base, user |-> "me"]

GitLabMrObj(iid, title, source_project_id, target_project_id, source_branch, target_branch) ==
    [iid |-> iid, title |-> title, state |-> "opened",
     project_id |-> target_project_id, source_project_id |-> source_project_id,
     source_branch |-> source_branch, target_branch |-> target_branch, author |-> "me"]

\* The changed files the native side lists for a merge request: a text file
\* with a patch, a binary file with and without patch text, a file without
\* patch.
SampleFiles(platform) ==
    IF platform = "github"
    THEN <<[filename |-> <<"a">>, status |-> "modified", additions |-> 1, deletions |-> 0,
            patch |-> <<"@">>],
           [filename |-> <<"a", ".", "p", "n", "g">>, status |-> "added", additions |-> 0,
            deletions |-> 0, patch |-> <<"@">>],
           [filename |-> <<"b", ".", "z", "i", "p">>, status |-> "added", additions |-> 0,
            deletions |-> 0],
           [filename |-> <<"p", "n", "g">>, status |-> "removed", additions |-> 0,
            deletions |-> 1, patch |-> <<>>]>>
    ELSE <<[new_path |-> <<"a">>, old_path |-> <<"a">>, new_file |-> FALSE,
            deleted_file |-> FALSE, renamed_file |-> FALSE, diff |-> <<"@">>],
           [new_path |-> <<"b">>, old_path |-> <<>>, new_file |-> TRUE,
            deleted_file |-> FALSE, renamed_file |-> FALSE,
            diff |-> <<"B", "i", "n", "a", "r", "y", " ", "f", "i", "l", "e", "s", " ", "d">>],
           [new_path |-> <<>>, old_path |-> <<"c">>, new_file |-> FALSE,
            deleted_file |-> TRUE, renamed_file |-> FALSE],
           [new_path |-> <<"d">>, old_path |-> <<"c">>, new_file |-> FALSE,
            deleted_file |-> FALSE, renamed_file |-> TRUE,
            diff |-> <<"B", "i", "n", "a", "r", "y">>]>>

\* The comments the native side lists for an issue.  GitLab notes carry a
\* system flag, set for the automated ones, or lack the attribute; a comment
\* may have lost its author.
SampleComments(platform) ==
    IF platform = "github"
    THEN <<[id |-> 1, user |-> "me", body |-> "c1"],
           [id |-> 2, user |-> "None", body |-> "c2"]>>
    ELSE <<[id |-> 1, author |-> "me", body |-> "c1", system |-> FALSE],
           [id |-> 2, author |-> "bot", body |-> "s1", system |-> TRUE],
           [id |-> 3, author |-> "None", body |-> "c2"],
           [id |-> 4, author |-> "bot", body |-> "s2", system |-> TRUE]>>

SampleObj(platform, slot) ==
    CASE slot \in {"project", "project2"} ->
            [SampleFork EXCEPT !.fork = FALSE, !.parent = "None"]
      [] slot \in {"issue", "new_issue"} ->
            IF platform = "github" THEN GitHubIssueObj(1, "t1")
            ELSE GitLabIssueObj(1, "t1", 1)
      [] slot \in {"mr", "new_mr"} ->
            IF platform = "github" THEN GitHubPrObj(1, "t1", <<"a">>, <<"b">>)
            ELSE GitLabMrObj(1, "t1", 1, 1, <<"a">>, <<"b">>)
      [] slot \in {"br_src", "br_tgt"} -> {<<"a">>, <<"b">>}
      [] slot = "users" -> <<[id |-> 7, username |-> "other"]>>
      [] slot = "files" -> SampleFiles(platform)
      [] slot = "comments" -> SampleComments(platform)
      [] OTHER -> <<>>

OkWorld(platform) == [mode |-> "drawn", ans |-> [s \in Slots |-> OkAns(SampleObj(platform, s))]]

\* The worlds in which at most one of the used slots goes wrong: a Python
\* step raises AttributeError, a native call raises one of the SDK's errors.
DrawnWorlds(platform, used) ==
    {OkWorld(platform)} \cup
    UNION {{[OkWorld(platform) EXCEPT !.ans[s] = f] :
               f \in (IF s = "conv" THEN {PyErr("AttributeError")} ELSE SdkErrors(platform))} :
              s \in used}

StoreWorld(platform, r) ==
    [mode |-> "store", remote |-> r, ans |-> OkWorld(platform).ans]

Answered(w, slot) == w.mode = "drawn" \/ ~w.ans[slot].ok

\* client.get_repo(pid) / client.projects.get(pid)
ProjectAns(platform, w, slot, pid) ==
    IF Answered(w, slot) THEN w.ans[slot]
    ELSE IF pid \in DOMAIN w.remote.issues
         THEN OkAns([id |-> pid, fork |-> FALSE, parent |-> "None"])
         ELSE NotFound(platform)

\* repo.get_issue(number): the issue with that number of the repository
GitHubIssueAns(w, pid, number) ==
    IF Answered(w, "issue") THEN w.ans["issue"]
    ELSE IF number \in 1..Len(w.remote.issues[pid])
         THEN OkAns(w.remote.issues[pid][number])
         ELSE NotFound("github")

\* project.issues.get(issue_id): the id goes into the request path as given
GitLabIssueAns(w, pid, issue_id) ==
    IF Answered(w, "issue") THEN w.ans["issue"]
    ELSE IF IsNumeric(issue_id) /\ IntOf(issue_id) \in 1..Len(w.remote.issues[pid])
         THEN OkAns(w.remote.issues[pid][IntOf(issue_id)])
         ELSE NotFound("gitlab")

\* repo.get_pull(number)
GitHubPullAns(w, pid, number) ==
    IF Answered(w, "mr") THEN w.ans["mr"]
    ELSE IF number \in 1..Len(w.remote.mrs[pid])
         THEN OkAns(w.remote.mrs[pid][number])
         ELSE NotFound("github")

\* project.mergerequests.get(mr_id)
GitLabMrAns(w, pid, mr_id) ==
    IF Answered(w, "mr") THEN w.ans["mr"]
    ELSE IF IsNumeric(mr_id) /\ IntOf(mr_id) \in 1..Len(w.remote.mrs[pid])
         THEN OkAns(w.remote.mrs[pid][IntOf(mr_id)])
         ELSE NotFound("gitlab")

\* The object the remote creates for repo.create_issue(**kwargs): the new
\* issue gets the repository's next number.
GitHubNewIssue(r, pid, kwargs) == GitHubIssueObj(Len(r.issues[pid]) + 1, kwargs.title)

\* The object the remote creates for project.issues.create(data): the new
\* issue gets the project's next iid.
GitLabNewIssue(r, pid, data) == GitLabIssueObj(Len(r.issues[pid]) + 1, data.title, IntOf(pid))

\* The object the remote creates for target_repo.create_pull(**kwargs): the
\* pull request lives in the repository it is created on and gets that
\* repository's next number; its head.ref is the branch of the head, without
\* the owner.
GitHubNewPull(r, pid, kwargs) ==
    GitHubPrObj(Len(r.mrs[pid]) + 1, kwargs.title,
                IF HasColon(kwargs.head) THEN SplitFirst(kwargs.head)[2] ELSE kwargs.head,
                kwargs.base)

\* The project a GitLab merge request lives in: the target project named in
\* the payload, else the project it is created through.
GitLabMrHome(pid, data) ==
    IF "target_project_id" \in DOMAIN data THEN data.target_project_id ELSE pid

\* The object the remote creates for project.mergerequests.create(data): the
\* merge request lives in the target project and gets that project's next iid.
GitLabNewMr(r, pid, data) ==
    GitLabMrObj(Len(r.mrs[GitLabMrHome(pid, data)]) + 1, data.title,
                IntOf(pid), IntOf(GitLabMrHome(pid, data)),
                data.source_branch, data.target_branch)

\* Python: s.split("/")[0]
FirstSegment(s) ==
    IF \E i \in 1..Len(s) : s[i] = "/"
    THEN SubSeq(s, 1, (CHOOSE k \in 1..Len(s) :
                          s[k] = "/" /\ \A j \in 1..(k - 1) : s[j] # "/") - 1)
    ELSE s

\* The repository that holds the head of a pull request created on repository
\* pid: pid itself, or for 'owner:branch' the owner's fork of it.
GitHubHeadHome(pid, head) ==
    IF HasColon(head)
    THEN SplitFirst(head)[1] \o SubSeq(pid, Len(FirstSegment(pid)) + 1, Len(pid))
    ELSE pid

\* The answer of a native create call: the drawn one, or over a remote store
\* the object the store creates; a GitLab merge request whose target project
\* does not exist is answered 404, a GitHub pull request whose head or base
\* branch does not exist is answered 422.
CreateAns(w, api, pid, data) ==
    LET slot == IF api \in {"repo.create_issue", "project.issues.create"}
                THEN "new_issue" ELSE "new_mr"
    IN  IF Answered(w, slot) THEN w.ans[slot]
        ELSE CASE api = "repo.create_issue" -> OkAns(GitHubNewIssue(w.remote, pid, data))
               [] api = "project.issues.create" -> OkAns(GitLabNewIssue(w.remote, pid, data))
               [] api = "repo.create_pull" ->
                     IF /\ GitHubNewPull(w.remote, pid, data).head
                               \in w.remote.branches[GitHubHeadHome(pid, data.head)]
                        /\ data.base \in w.remote.branches[pid]
                     THEN OkAns(GitHubNewPull(w.remote, pid, data))
                     ELSE SdkErr("github", 422, FALSE)
               [] api = "project.mergerequests.create" ->
                     IF GitLabMrHome(pid, data) \in DOMAIN w.remote.mrs
                     THEN OkAns(GitLabNewMr(w.remote, pid, data))
                     ELSE NotFound("gitlab")

\* The remote store after the native calls of one method: a successful create
\* call has added its object to the project it lives in.
StoreAfterCall(r, c) ==
    IF ~c.ok THEN r
    ELSE CASE c.api = "repo.create_issue" ->
                [r EXCEPT !.issues[c.params.project] =
                    Append(@, GitHubNewIssue(r, c.params.project, c.params.data))]
           [] c.api = "project.issues.create" ->
                [r EXCEPT !.issues[c.params.project] =
                    Append(@, GitLabNewIssue(r, c.params.project, c.params.data))]
           [] c.api = "repo.create_pull" ->
                [r EXCEPT !.mrs[c.params.project] =
                    Append(@, GitHubNewPull(r, c.params.project, c.params.data))]
           [] c.api = "project.mergerequests.create" ->
                [r EXCEPT !.mrs[GitLabMrHome(c.params.project, c.params.data)] =
                    Append(@, GitLabNewMr(r, c.params.project, c.params.data))]
           \* a merged pull request is closed and has its merged flag set
           [] c.api = "pr.merge" ->
                [r EXCEPT !.mrs[c.params.project][c.params.number] =
                    [@ EXCEPT !.state = "closed", !.merged = TRUE]]
           [] c.api = "mr.merge" ->
                [r EXCEPT !.mrs[c.params.project][IntOf(c.params.id)].state = "merged"]
           [] OTHER -> r

RECURSIVE StoreAfter(_, _)
StoreAfter(r, calls) ==
    IF calls = <<>> THEN r ELSE StoreAfter(StoreAfterCall(r, Head(calls)), Tail(calls))

\* project.branches.list(search=name): the branches whose name holds the text
BranchesAns(platform, w, slot, pid, name) ==
    IF Answered(w, slot) THEN w.ans[slot]
    ELSE OkAns(w.remote.branches[pid])

\* client.users.list(username=name)
UsersAns(w, name) ==
    IF w.ans["users"].ok
    THEN OkAns(SelectSeq(w.ans["users"].obj, LAMBDA u : u.username = name))
    ELSE w.ans["users"]

(***************************************************************************)
(* Conversion of native objects into resources.                            *)
(***************************************************************************)
GitHubConvertToIssueResource(issue, project_id) ==
    [id |-> StrOf(issue.number), title |-> issue.title,
     state |-> IF issue.state = "open" THEN "opened" ELSE "closed",
     project_id |-> project_id, assignee |-> issue.assignee, metadata |-> NoParams]

GitLabConvertToIssueResource(issue, project_id) ==
    [id |-> StrOf(issue.iid), title |-> issue.title,
     state |-> IF issue.state = "opened" THEN "opened" ELSE "closed",
     project_id |-> project_id, assignee |-> issue.assignee, metadata |-> NoParams]

GitHubConvertToMrResource(pr, project_id) ==
    [id |-> StrOf(pr.number), title |-> pr.title,
     state |-> IF pr.state = "closed" THEN "closed"
               ELSE IF pr.merged THEN "merged" ELSE "opened",
     project_id |-> project_id, source_branch |-> pr.head, target_branch |-> pr.base,
     author |-> pr.user]

GitLabConvertToMrResource(mr, project_id) ==
    [id |-> StrOf(mr.iid), title |-> mr.title,
     state |-> IF mr.state = "closed" THEN "closed"
               ELSE IF mr.state = "merged" THEN "merged" ELSE "opened",
     project_id |-> project_id, source_branch |-> mr.source_branch,
     target_branch |-> mr.target_branch, author |-> mr.author]

(***************************************************************************)
(* Project methods and fork checks.  args are the method's arguments, w    *)
(* the world it runs in.  Each operator is the try body of the method      *)
(* followed by its except clauses.                                         *)
(***************************************************************************)

\* try: self.client.get_user(); return True / except Exception: return False
GitHubTestConnection(args, w) ==
    LET plan == <<Native("get_user", NoParams, w.ans["act"])>>
    IN  Done(IF FirstFail(plan) = 0 THEN Return(TRUE) ELSE Return(FALSE), plan)

\* try: self.client.user; return True / except Exception: return False
GitLabTestConnection(args, w) ==
    LET plan == <<Native("client.user", NoParams, w.ans["act"])>>
    IN  Done(IF FirstFail(plan) = 0 THEN Return(TRUE) ELSE Return(FALSE), plan)

GitHubGetProject(args, w) ==
    LET plan == <<Native("get_repo", [id |-> args.project_id],
                         ProjectAns("github", w, "project", args.project_id)),
                  Python("_convert_to_project_resource", w.ans["conv"])>>
        f == FirstFail(plan)
    IN  Done(IF f = 0 THEN Return([id |-> args.project_id])
             ELSE ExceptNoneOn404(plan[f].ans), plan)

GitLabGetProject(args, w) ==
    LET plan == <<Native("projects.get", [id |-> args.project_id],
                         ProjectAns("gitlab", w, "project", args.project_id)),
                  Python("_convert_to_project_resource", w.ans["conv"])>>
        f == FirstFail(plan)
    IN  Done(IF f = 0 THEN Return([id |-> args.project_id])
             ELSE ExceptNoneOn404(plan[f].ans), plan)

GitHubDeleteProject(args, w) ==
    LET plan == <<Native("get_repo", [id |-> args.project_id],
                         ProjectAns("github", w, "project", args.project_id)),
                  Native("repo.delete", NoParams, w.ans["act"])>>
        f == FirstFail(plan)
    IN  Done(IF f = 0 THEN Return(TRUE) ELSE ExceptNotFoundOn404(plan[f].ans), plan)

GitLabDeleteProject(args, w) ==
    LET plan == <<Native("projects.get", [id |-> args.project_id],
                         ProjectAns("gitlab", w, "project", args.project_id)),
                  Native("project.delete", NoParams, w.ans["act"])>>
        f == FirstFail(plan)
    IN  Done(IF f = 0 THEN Return(TRUE) ELSE ExceptNotFoundOn404(plan[f].ans), plan)

GitHubIsFork(args, w) ==
    LET plan == <<Native("get_repo", [id |-> args.project_id],
                         ProjectAns("github", w, "project", args.project_id))>>
        f == FirstFail(plan)
    IN  Done(IF f = 0 THEN Return(plan[1].ans.obj.fork)
             ELSE ExceptNotFoundOn404(plan[f].ans), plan)

GitLabIsFork(args, w) ==
    LET plan == <<Native("projects.get", [id |-> args.project_id],
                         ProjectAns("gitlab", w, "project", args.project_id))>>
        f == FirstFail(plan)
    IN  Done(IF f = 0 THEN Return(plan[1].ans.obj.fork)
             ELSE ExceptNotFoundOnStr404(plan[f].ans), plan)

GitHubGetForkParent(args, w) ==
    LET plan == <<Native("get_repo", [id |-> args.project_id],
                         ProjectAns("github", w, "project", args.project_id))>>
        f == FirstFail(plan)
        repo == plan[1].ans.obj
    IN  Done(IF f = 0
             THEN Return(IF repo.fork THEN StrVal(repo.parent) ELSE None)
             ELSE ExceptNotFoundOn404(plan[f].ans), plan)

GitLabGetForkParent(args, w) ==
    LET plan == <<Native("projects.get", [id |-> args.project_id],
                         ProjectAns("gitlab", w, "project", args.project_id))>>
        f == FirstFail(plan)
        project == plan[1].ans.obj
    IN  Done(IF f = 0
             THEN Return(IF project.fork THEN StrVal(project.parent) ELSE None)
             ELSE ExceptNotFoundOnStr404(plan[f].ans), plan)

(***************************************************************************)
(* Issue methods.                                                          *)
(***************************************************************************)

\* The inner try of get_issue fetches the comments, converts the issue and
\* attaches them; on any exception the issue is converted again and returned
\* bare.  An exception of that second conversion reaches the outer clauses.
\* user_comments of GitHub: one entry per native comment, never a system one.
GitHubUserComments(comments) ==
    [i \in 1..Len(comments) |->
        [id |-> StrOf(comments[i].id),
         author |-> IF comments[i].user # "None" THEN comments[i].user ELSE "Unknown",
         body |-> comments[i].body, system |-> FALSE]]

\* Variant of GitLabUserComments that keeps the system notes.
GitLabUserCommentsUnfiltered(notes) ==
    [i \in 1..Len(notes) |->
        [id |-> StrOf(notes[i].id),
         author |-> IF notes[i].author # "None" THEN notes[i].author ELSE "Unknown",
         body |-> notes[i].body,
         system |-> IF "system" \in DOMAIN notes[i] THEN notes[i].system ELSE FALSE]]

\* user_comments of GitLab: one entry per note whose system flag is not set
\* (getattr(note, "system", False)), in the order of the notes.
GitLabUserComments(notes) ==
    LET IsSystem(note) == IF "system" \in DOMAIN note THEN note.system ELSE FALSE
        kept == SelectSeq(notes, LAMBDA note : ~IsSystem(note))
    IN  [i \in 1..Len(kept) |->
            [id |-> StrOf(kept[i].id),
             author |-> IF kept[i].author # "None" THEN kept[i].author ELSE "Unknown",
             body |-> kept[i].body, system |-> IsSystem(kept[i])]]

\* Variant of GitLabGetIssue in which a failure of the comment fetch fails the
\* whole call.
GitLabGetIssueNoFallback(args, w) ==
    LET head == <<Native("projects.get", [id |-> args.project_id],
                         ProjectAns("gitlab", w, "project", args.project_id))>>
        plan == IF FirstFail(head) # 0 THEN head
                ELSE head \o <<Native("project.issues.get", [id |-> args.issue_id],
                                      GitLabIssueAns(w, args.project_id, args.issue_id)),
                               Native("issue.notes.list", NoParams, w.ans["comments"]),
                               Python("_convert_to_issue_resource", w.ans["conv"])>>
        f == FirstFail(plan)
    IN  Done(IF f = 0
             THEN Return([GitLabConvertToIssueResource(plan[2].ans.obj, args.project_id)
                             EXCEPT !.metadata =
                                 [comments |-> GitLabUserComments(plan[3].ans.obj)]])
             ELSE ExceptNoneOn404(plan[f].ans), plan)

GitHubGetIssue(args, w) ==
    LET repo == ProjectAns("github", w, "project", args.project_id)
        head == <<Native("get_repo", [id |-> args.project_id], repo),
                  IntStep(args.issue_id)>>
        plan == IF FirstFail(head) # 0 THEN head
                ELSE head \o <<Native("repo.get_issue", [number |-> IntOf(args.issue_id)],
                                      GitHubIssueAns(w, args.project_id, IntOf(args.issue_id)))>>
        f == FirstFail(plan)
        inner == <<Native("issue.get_comments", NoParams, w.ans["comments"]),
                   Python("_convert_to_issue_resource", w.ans["conv"])>>
        bare == GitHubConvertToIssueResource(plan[3].ans.obj, args.project_id)
    IN  IF f # 0
        THEN Done(ExceptNoneOn404(plan[f].ans), plan)
        ELSE IF FirstFail(inner) = 0
             THEN Done(Return([bare EXCEPT !.metadata = [comments |-> GitHubUserComments(inner[1].ans.obj)]]),
                       plan \o inner)
             ELSE IF w.ans["conv"].ok
                  THEN Done(Return(bare), plan \o inner)
                  ELSE Done(ExceptNoneOn404(w.ans["conv"]), plan \o inner)

GitLabGetIssue(args, w) ==
    LET project == ProjectAns("gitlab", w, "project", args.project_id)
        head == <<Native("projects.get", [id |-> args.project_id], project)>>
        plan == IF FirstFail(head) # 0 THEN head
                ELSE head \o <<Native("project.issues.get", [id |-> args.issue_id],
                                      GitLabIssueAns(w, args.project_id, args.issue_id))>>
        f == FirstFail(plan)
        inner == <<Native("issue.notes.list", NoParams, w.ans["comments"]),
                   Python("_convert_to_issue_resource", w.ans["conv"])>>
        bare == GitLabConvertToIssueResource(plan[2].ans.obj, args.project_id)
    IN  IF f # 0
        THEN Done(ExceptNoneOn404(plan[f].ans), plan)
        ELSE IF FirstFail(inner) = 0
             THEN Done(Return([bare EXCEPT !.metadata = [comments |-> GitLabUserComments(inner[1].ans.obj)]]),
                       plan \o inner)
             ELSE IF w.ans["conv"].ok
                  THEN Done(Return(bare), plan \o inner)
                  ELSE Done(ExceptNoneOn404(w.ans["conv"]), plan \o inner)

GitHubCreateIssue(args, w) ==
    LET repo == ProjectAns("github", w, "project", args.project_id)
        issue_kwargs == [title |-> args.title]
        head == <<Native("get_repo", [id |-> args.project_id], repo)>>
        plan == IF FirstFail(head) # 0 THEN head
                ELSE head \o <<Native("repo.create_issue",
                                      [project |-> args.project_id, data |-> issue_kwargs],
                                      CreateAns(w, "repo.create_issue", args.project_id, issue_kwargs)),
                               Python("_convert_to_issue_resource", w.ans["conv"])>>
        f == FirstFail(plan)
    IN  Done(IF f = 0
             THEN Return(GitHubConvertToIssueResource(plan[2].ans.obj, args.project_id))
             ELSE ExceptPlatformError(plan[f].ans), plan)

GitLabCreateIssue(args, w) ==
    LET project == ProjectAns("gitlab", w, "project", args.project_id)
        issue_data == [title |-> args.title]
        head == <<Native("projects.get", [id |-> args.project_id], project)>>
        plan == IF FirstFail(head) # 0 THEN head
                ELSE head \o <<Native("project.issues.create",
                                      [project |-> args.project_id, data |-> issue_data],
                                      CreateAns(w, "project.issues.create", args.project_id, issue_data)),
                               Python("_convert_to_issue_resource", w.ans["conv"])>>
        f == FirstFail(plan)
    IN  Done(IF f = 0
             THEN Return(GitLabConvertToIssueResource(plan[2].ans.obj, args.project_id))
             ELSE ExceptPlatformError(plan[f].ans), plan)

GitHubCreateIssueComment(args, w) ==
    LET repo == ProjectAns("github", w, "project", args.project_id)
        head == <<Native("get_repo", [id |-> args.project_id], repo),
                  IntStep(args.issue_id)>>
        plan == IF FirstFail(head) # 0 THEN head
                ELSE head \o <<Native("repo.get_issue", [number |-> IntOf(args.issue_id)],
                                      GitHubIssueAns(w, args.project_id, IntOf(args.issue_id))),
                               Native("issue.create_comment", [body |-> args.body],
                                      w.ans["act"]),
                               Python("comment dict", w.ans["conv"])>>
        f == FirstFail(plan)
    IN  Done(IF f = 0 THEN Return([body |-> args.body])
             ELSE ExceptPlatformError(plan[f].ans), plan)

GitLabCreateIssueComment(args, w) ==
    LET project == ProjectAns("gitlab", w, "project", args.project_id)
        head == <<Native("projects.get", [id |-> args.project_id], project)>>
        plan == IF FirstFail(head) # 0 THEN head
                ELSE head \o <<Native("project.issues.get", [id |-> args.issue_id],
                                      GitLabIssueAns(w, args.project_id, args.issue_id)),
                               Native("issue.notes.create", [body |-> args.body],
                                      w.ans["act"]),
                               Python("note dict", w.ans["conv"])>>
        f == FirstFail(plan)
    IN  Done(IF f = 0 THEN Return([body |-> args.body])
             ELSE ExceptPlatformError(plan[f].ans), plan)

(***************************************************************************)
(* Merge request reads.                                                    *)
(***************************************************************************)

\* The first steps of the GitHub methods that read one pull request:
\* get_repo, int(mr_id), repo.get_pull.
GitHubPullSteps(args, w) ==
    LET head == <<Native("get_repo", [id |-> args.project_id],
                         ProjectAns("github", w, "project", args.project_id)),
                  IntStep(args.mr_id)>>
    IN  IF FirstFail(head) # 0 THEN head
        ELSE head \o <<Native("repo.get_pull", [number |-> IntOf(args.mr_id)],
                              GitHubPullAns(w, args.project_id, IntOf(args.mr_id)))>>

\* The first steps of the GitLab methods that read one merge request:
\* projects.get, project.mergerequests.get.
GitLabMrSteps(args, w) ==
    LET head == <<Native("projects.get", [id |-> args.project_id],
                         ProjectAns("gitlab", w, "project", args.project_id))>>
    IN  IF FirstFail(head) # 0 THEN head
        ELSE head \o <<Native("project.mergerequests.get", [id |-> args.mr_id],
                              GitLabMrAns(w, args.project_id, args.mr_id))>>

GitHubGetMergeRequest(args, w) ==
    LET steps == GitHubPullSteps(args, w)
        plan == IF FirstFail(steps) # 0 THEN steps
                ELSE steps \o <<Python("_convert_to_mr_resource", w.ans["conv"])>>
        f == FirstFail(plan)
    IN  Done(IF f = 0 THEN Return(GitHubConvertToMrResource(plan[3].ans.obj, args.project_id))
             ELSE ExceptNoneOn404(plan[f].ans), plan)

GitLabGetMergeRequest(args, w) ==
    LET steps == GitLabMrSteps(args, w)
        plan == IF FirstFail(steps) # 0 THEN steps
                ELSE steps \o <<Python("_convert_to_mr_resource", w.ans["conv"])>>
        f == FirstFail(plan)
    IN  Done(IF f = 0 THEN Return(GitLabConvertToMrResource(plan[2].ans.obj, args.project_id))
             ELSE ExceptNoneOn404(plan[f].ans), plan)

\* pr.merge() / mr.merge(): the drawn answer, or over a remote store success
\* for an open merge request and 405 for one that is not open.
MergeAns(platform, w, mr) ==
    IF Answered(w, "act") THEN w.ans["act"]
    ELSE IF mr.state \in {"open", "opened"} THEN OkAns(TRUE)
         ELSE SdkErr(platform, 405, FALSE)

GitHubMergeMergeRequest(args, w) ==
    LET steps == GitHubPullSteps(args, w)
        number == IntOf(args.mr_id)
        merge_kwargs == [k \in (DOMAIN args.kwargs)
                                \cap {"commit_title", "commit_message", "merge_method"} |->
                            args.kwargs[k]]
        merge == Native("pr.merge",
                        [project |-> args.project_id, number |-> number, data |-> merge_kwargs],
                        MergeAns("github", w, steps[3].ans.obj))
        \* the second get_pull sees the remote as the merge left it
        now == IF w.mode = "store"
               THEN [w EXCEPT !.remote = StoreAfter(@, NativeCalls(<<merge>>))] ELSE w
        plan == IF FirstFail(steps) # 0 THEN steps
                ELSE IF ~merge.ans.ok THEN steps \o <<merge>>
                ELSE steps \o <<merge,
                                Native("repo.get_pull", [number |-> number],
                                       GitHubPullAns(now, args.project_id, number)),
                                Python("_convert_to_mr_resource", w.ans["conv"])>>
        f == FirstFail(plan)
    IN  Done(IF f = 0 THEN Return(GitHubConvertToMrResource(plan[5].ans.obj, args.project_id))
             ELSE ExceptPlatformError(plan[f].ans), plan)

GitLabMergeMergeRequest(args, w) ==
    LET steps == GitLabMrSteps(args, w)
        merge == Native("mr.merge",
                        [project |-> args.project_id, id |-> args.mr_id, data |-> args.kwargs],
                        MergeAns("gitlab", w, steps[2].ans.obj))
        \* the second mergerequests.get sees the remote as the merge left it
        now == IF w.mode = "store"
               THEN [w EXCEPT !.remote = StoreAfter(@, NativeCalls(<<merge>>))] ELSE w
        plan == IF FirstFail(steps) # 0 THEN steps
                ELSE IF ~merge.ans.ok THEN steps \o <<merge>>
                ELSE steps \o <<merge,
                                Native("project.mergerequests.get", [id |-> args.mr_id],
                                       GitLabMrAns(now, args.project_id, args.mr_id)),
                                Python("_convert_to_mr_resource", w.ans["conv"])>>
        f == FirstFail(plan)
    IN  Done(IF f = 0 THEN Return(GitLabConvertToMrResource(plan[4].ans.obj, args.project_id))
             ELSE ExceptPlatformError(plan[f].ans), plan)

\* Variant of GitHubFileInfo that treats every file as binary and attaches the
\* patch whenever there is one.
GitHubFileInfoAnyPatch(file, include_diff) ==
    [path |-> file.filename, status |-> file.status, additions |-> file.additions,
     deletions |-> file.deletions, binary |-> TRUE]
        @@ (IF "patch" \in DOMAIN file THEN [diff |-> file.patch] ELSE NoParams)

\* The entry of one changed file of a pull request.  A file is binary when
\* its name ends with one of seven extensions; the patch is attached when
\* diffs are wanted, the file is not binary and the native file has a
\* non-empty patch (a file without the attribute has no "patch" field here).
GitHubFileInfo(file, include_diff) ==
    LET name == file.filename
        exts == {<<".", "p", "n", "g">>, <<".", "j", "p", "g">>, <<".", "j", "p", "e", "g">>,
                 <<".", "g", "i", "f">>, <<".", "p", "d", "f">>, <<".", "z", "i", "p">>,
                 <<".", "e", "x", "e">>}
        \* file.filename.endswith((".png", ...))
        binary == \E ext \in exts :
                      /\ Len(name) >= Len(ext)
                      /\ SubSeq(name, Len(name) - Len(ext) + 1, Len(name)) = ext
    IN  [path |-> name, status |-> file.status, additions |-> file.additions,
         deletions |-> file.deletions, binary |-> binary]
            @@ (IF include_diff /\ ~binary /\ "patch" \in DOMAIN file /\ file.patch # <<>>
                THEN [diff |-> file.patch] ELSE NoParams)

\* The entry of one change of a GitLab merge request.  A change is binary
\* when its diff text starts with "Binary files"; a change without a diff
\* has the empty text (change.get("diff", "")).
GitLabFileInfo(change, include_diff) ==
    LET diff == IF "diff" \in DOMAIN change THEN change.diff ELSE <<>>
        mark == <<"B", "i", "n", "a", "r", "y", " ", "f", "i", "l", "e", "s">>
        \* change.get("diff", "").startswith("Binary files")
        binary == Len(diff) >= Len(mark) /\ SubSeq(diff, 1, Len(mark)) = mark
        \* _get_file_status(change)
        status == IF change.new_file THEN "added"
                  ELSE IF change.deleted_file THEN "deleted"
                  ELSE IF change.renamed_file THEN "renamed" ELSE "modified"
    IN  [path |-> IF change.new_path # <<>> THEN change.new_path ELSE change.old_path,
         status |-> status, additions |-> 0, deletions |-> 0, binary |-> binary]
            @@ (IF include_diff /\ ~binary THEN [diff |-> diff] ELSE NoParams)

GitHubGetMergeRequestDiff(args, w) ==
    LET steps == GitHubPullSteps(args, w)
        plan == IF FirstFail(steps) # 0 THEN steps
                ELSE steps \o <<Native("pr.get_files", NoParams, w.ans["files"]),
                                Python("file entries", w.ans["conv"])>>
        f == FirstFail(plan)
        \* options.get("include_diff", True)
        include_diff == IF "include_diff" \in DOMAIN args.options
                        THEN args.options["include_diff"] ELSE TRUE
        files == plan[4].ans.obj
    IN  Done(IF f = 0
             THEN Return([mr_id |-> args.mr_id,
                          files |-> [i \in 1..Len(files) |->
                                        GitHubFileInfo(files[i], include_diff)],
                          diff_format |-> IF "format" \in DOMAIN args.options
                                          THEN args.options["format"] ELSE "json",
                          truncated |-> FALSE])
             ELSE ExceptNotFoundOn404(plan[f].ans), plan)

GitLabGetMergeRequestDiff(args, w) ==
    LET steps == GitLabMrSteps(args, w)
        plan == IF FirstFail(steps) # 0 THEN steps
                ELSE steps \o <<Native("mr.changes", NoParams, w.ans["files"]),
                                Python("file entries", w.ans["conv"])>>
        f == FirstFail(plan)
        \* options.get("include_diff", True)
        include_diff == IF "include_diff" \in DOMAIN args.options
                        THEN args.options["include_diff"] ELSE TRUE
        \* changes.get("changes", [])
        changes == plan[3].ans.obj
    IN  Done(IF f = 0
             THEN Return([mr_id |-> args.mr_id,
                          files |-> [i \in 1..Len(changes) |->
                                        GitLabFileInfo(changes[i], include_diff)],
                          diff_format |-> IF "format" \in DOMAIN args.options
                                          THEN args.options["format"] ELSE "json",
                          truncated |-> FALSE])
             ELSE ExceptNotFoundOn404(plan[f].ans), plan)

GitHubGetMergeRequestCommits(args, w) ==
    LET steps == GitHubPullSteps(args, w)
        plan == IF FirstFail(steps) # 0 THEN steps
                ELSE steps \o <<Native("pr.get_commits", NoParams, w.ans["commits"]),
                                Python("commit entries", w.ans["conv"])>>
        f == FirstFail(plan)
    IN  Done(IF f = 0 THEN Return([mr_id |-> args.mr_id])
             ELSE ExceptNotFoundOn404(plan[f].ans), plan)

GitLabGetMergeRequestCommits(args, w) ==
    LET steps == GitLabMrSteps(args, w)
        plan == IF FirstFail(steps) # 0 THEN steps
                ELSE steps \o <<Native("mr.commits", NoParams, w.ans["commits"]),
                                Python("commit entries", w.ans["conv"])>>
        f == FirstFail(plan)
    IN  Done(IF f = 0 THEN Return([mr_id |-> args.mr_id])
             ELSE ExceptNotFoundOn404(plan[f].ans), plan)

(***************************************************************************)
(* Filter normalisation.  A filter mapping is a function from the keys     *)
(* the caller gave to their values.  The value of "labels" is a string or  *)
(* a list (StrVal, ListVal).                                               *)
(***************************************************************************)
\* The entries of a mapping left after the given keys were popped.
Remaining(kwargs, popped) == [k \in (DOMAIN kwargs) \ popped |-> kwargs[k]]

GitHubNormalizeIssueFilters(filters) ==
    [key \in (DOMAIN filters) \cap {"state", "labels", "assignee", "creator", "mentioned",
                                   "milestone", "sort", "direction"} |->
        IF key = "state" /\ filters[key] = "opened" THEN "open"
        ELSE IF key = "labels"
             THEN IF IsStr(filters[key]) THEN ListVal(<<filters[key].str>>) ELSE filters[key]
             ELSE filters[key]]

GitHubNormalizePrFilters(filters) ==
    [key \in (DOMAIN filters) \cap {"state", "head", "base", "sort", "direction"} |->
        IF key = "state"
        THEN IF filters[key] = "opened" THEN "open"
             ELSE IF filters[key] = "merged" THEN "closed"
             ELSE filters[key]
        ELSE filters[key]]

\* for key, value in filters.items():
\*     if key in filter_mapping: gitlab_filters[filter_mapping[key]] = value
GitLabRenameFilters(filters, filter_mapping) ==
    LET keys == (DOMAIN filters) \cap (DOMAIN filter_mapping)
    IN  [native \in {filter_mapping[key] : key \in keys} |->
            filters[CHOOSE key \in keys : filter_mapping[key] = native]]

GitLabNormalizeIssueFilters(filters) ==
    GitLabRenameFilters(filters,
        [state |-> "state", labels |-> "labels", assignee |-> "assignee_username",
         author |-> "author_username", milestone |-> "milestone",
         order_by |-> "order_by", sort |-> "sort"])

GitLabNormalizeMrFilters(filters) ==
    GitLabRenameFilters(filters,
        [state |-> "state", labels |-> "labels", assignee |-> "assignee_username",
         author |-> "author_username", milestone |-> "milestone",
         source_branch |-> "source_branch", target_branch |-> "target_branch",
         order_by |-> "order_by", sort |-> "sort"])

(***************************************************************************)
(* List methods.                                                           *)
(***************************************************************************)

GitHubListIssues(args, w) ==
    LET github_filters == GitHubNormalizeIssueFilters(args.filters)
        plan == <<Native("get_repo", [id |-> args.project_id],
                         ProjectAns("github", w, "project", args.project_id)),
                  Native("repo.get_issues", github_filters, w.ans["issues"]),
                  Python("_convert_to_issue_resource", w.ans["conv"])>>
        f == FirstFail(plan)
        issues == plan[2].ans.obj
    IN  Done(IF f = 0
             THEN Return([i \in 1..Len(issues) |->
                            GitHubConvertToIssueResource(issues[i], args.project_id)])
             ELSE ExceptPlatformError(plan[f].ans), plan)

GitLabListIssues(args, w) ==
    LET gitlab_filters == GitLabNormalizeIssueFilters(args.filters)
        plan == <<Native("projects.get", [id |-> args.project_id],
                         ProjectAns("gitlab", w, "project", args.project_id)),
                  Native("project.issues.list", [all |-> TRUE] @@ gitlab_filters,
                         w.ans["issues"]),
                  Python("_convert_to_issue_resource", w.ans["conv"])>>
        f == FirstFail(plan)
        issues == plan[2].ans.obj
    IN  Done(IF f = 0
             THEN Return([i \in 1..Len(issues) |->
                            GitLabConvertToIssueResource(issues[i], args.project_id)])
             ELSE ExceptPlatformError(plan[f].ans), plan)

GitHubListMergeRequests(args, w) ==
    LET github_filters == GitHubNormalizePrFilters(args.filters)
        plan == <<Native("get_repo", [id |-> args.project_id],
                         ProjectAns("github", w, "project", args.project_id)),
                  Native("repo.get_pulls", github_filters, w.ans["mrs"]),
                  Python("_convert_to_mr_resource", w.ans["conv"])>>
        f == FirstFail(plan)
        prs == plan[2].ans.obj
    IN  Done(IF f = 0
             THEN Return([i \in 1..Len(prs) |->
                            GitHubConvertToMrResource(prs[i], args.project_id)])
             ELSE ExceptPlatformError(plan[f].ans), plan)

GitLabListMergeRequests(args, w) ==
    LET gitlab_filters == GitLabNormalizeMrFilters(args.filters)
        plan == <<Native("projects.get", [id |-> args.project_id],
                         ProjectAns("gitlab", w, "project", args.project_id)),
                  \* GitLab answers an author_username parameter with the merge
                  \* requests of that author only
                  Native("project.mergerequests.list", [all |-> TRUE] @@ gitlab_filters,
                         IF w.ans["mrs"].ok /\ "author_username" \in DOMAIN gitlab_filters
                         THEN OkAns(SelectSeq(w.ans["mrs"].obj,
                                              LAMBDA mr : mr.author
                                                            = gitlab_filters["author_username"]))
                         ELSE w.ans["mrs"]),
                  Python("_convert_to_mr_resource", w.ans["conv"])>>
        f == FirstFail(plan)
        mrs == plan[2].ans.obj
    IN  Done(IF f = 0
             THEN Return([i \in 1..Len(mrs) |->
                            GitLabConvertToMrResource(mrs[i], args.project_id)])
             ELSE ExceptPlatformError(plan[f].ans), plan)

\* A search query is the sequence of its qualifiers, joined by spaces.
Qualifier(name, value) == [q |-> name, v |-> value]

GitHubListAllIssues(self, args, w) ==
    LET filters == args.filters
        state == IF "state" \in DOMAIN filters THEN filters["state"] ELSE "open"
        state_part == IF state # "all" THEN <<Qualifier("state", state)>> ELSE <<>>
        assignee_part ==
            IF "assignee" \in DOMAIN filters
            THEN IF filters["assignee"] = self.username
                 THEN <<Qualifier("assignee", "@me")>>
                 ELSE <<Qualifier("assignee", filters["assignee"])>>
            ELSE <<>>
        label_part ==
            IF "labels" \in DOMAIN filters
            THEN LET given == filters["labels"]
                     \* if isinstance(labels, str): labels = [labels]
                     labels == IF IsStr(given) THEN <<given.str>> ELSE given.list
                 IN  [i \in 1..Len(labels) |-> Qualifier("label", labels[i])]
            ELSE <<>>
        author_part ==
            IF "author" \in DOMAIN filters
            THEN <<Qualifier("author", filters["author"])>>
            ELSE <<>>
        query == state_part \o assignee_part \o label_part \o author_part
                     \o <<Qualifier("type", "issue")>>
        plan == <<Native("search_issues", [query |-> query], w.ans["issues"]),
                  Python("_convert_to_issue_resource", w.ans["conv"])>>
        f == FirstFail(plan)
        issues == plan[1].ans.obj
    IN  Done(IF f = 0
             THEN Return([i \in 1..Len(issues) |->
                            GitHubConvertToIssueResource(issues[i], issues[i].repository)])
             ELSE ExceptPlatformError(plan[f].ans), plan)

\* Variant of GitLabClientSideFilter that keeps every issue.
GitLabClientSideFilterOff(issue_resources, assignee_filter) == issue_resources

\* [issue for issue in issue_resources if issue.assignee == assignee_filter]
GitLabClientSideFilter(issue_resources, assignee_filter) ==
    SelectSeq(issue_resources, LAMBDA r : r.assignee = assignee_filter)

\* Variant of GitLabIsCurrentUser that never takes the assignee for the
\* current user.
GitLabIsCurrentUserNever(self, assignee_filter) == FALSE

\* if assignee_filter == self.username
GitLabIsCurrentUser(self, assignee_filter) == assignee_filter = self.username

GitLabListAllIssues(self, args, w) ==
    LET filters == args.filters
        normalized == GitLabNormalizeIssueFilters(filters)
        has_assignee == "assignee" \in DOMAIN filters
        assignee_filter == IF has_assignee THEN filters["assignee"] ELSE "None"
        is_me == has_assignee /\ GitLabIsCurrentUser(self, assignee_filter)
        lookup == has_assignee /\ ~is_me
        users == UsersAns(w, assignee_filter)
        lookup_steps ==
            IF lookup
            THEN <<Native("users.list", [username |-> assignee_filter], users)>>
            ELSE <<>>
        gitlab_filters ==
            IF is_me
            THEN [scope |-> "assigned_to_me",
                  state |-> IF "state" \in DOMAIN normalized
                            THEN normalized["state"] ELSE "opened",
                  all |-> FALSE, per_page |-> 100]
            ELSE IF lookup /\ users.ok /\ users.obj # <<>>
                 THEN [assignee_id |-> users.obj[1].id]
                          @@ Remaining(normalized, {"assignee_username"})
                 ELSE normalized
        plan == <<Native("issues.list", gitlab_filters, w.ans["issues"]),
                  Python("_convert_to_issue_resource", w.ans["conv"])>>
        f == FirstFail(plan)
        issues == plan[1].ans.obj
        issue_resources ==
            [i \in 1..Len(issues) |->
                GitLabConvertToIssueResource(issues[i], StrOf(issues[i].project_id))]
        client_side == lookup /\ "assignee_id" \notin DOMAIN gitlab_filters
    IN  IF lookup /\ users.ok /\ users.obj = <<>>
        THEN [res |-> Return(<<>>), calls |-> NativeCalls(lookup_steps)]
        ELSE [res |-> IF f # 0 THEN ExceptPlatformError(plan[f].ans)
                      ELSE IF client_side
                           THEN Return(GitLabClientSideFilter(issue_resources,
                                                              assignee_filter))
                           ELSE Return(issue_resources),
              calls |-> NativeCalls(lookup_steps) \o NativeCalls(Ran(plan))]

(***************************************************************************)
(* create_merge_request                                                    *)
(***************************************************************************)

\* The entry key |-> kwargs[from] when kwargs holds from, else nothing.
Optional(kwargs, from, key) ==
    IF from \in DOMAIN kwargs THEN [k \in {key} |-> kwargs[from]] ELSE NoParams

GitHubCreateMergeRequest(args, w) ==
    LET src == GitHubParseBranchReference(args.source_branch)
        tgt == GitHubParseBranchReference(args.target_branch)
        source_ref == src.value
        target_ref == tgt.value
        source_head ==
            IF source_ref.is_cross_repo
            THEN source_ref.owner \o <<":">> \o source_ref.branch
            ELSE source_ref.branch
        target_repo_id ==
            IF target_ref.is_cross_repo
            THEN target_ref.owner \o <<"/">> \o FirstSegment(target_ref.branch)
            ELSE args.project_id
        target_base == target_ref.branch
        \* pr_kwargs.update(kwargs) comes last: what is left in kwargs wins
        pr_kwargs ==
            Remaining(args.kwargs, {"description", "draft", "assignee_username"})
                @@ Optional(args.kwargs, "description", "body")
                @@ Optional(args.kwargs, "draft", "draft")
                @@ Optional(args.kwargs, "assignee_username", "assignee")
                @@ [title |-> args.title, head |-> source_head, base |-> target_base]
        head == <<Native("get_repo", [id |-> target_repo_id],
                         ProjectAns("github", w, "project", target_repo_id))>>
        plan == IF FirstFail(head) # 0 THEN head
                ELSE head \o <<Native("repo.create_pull",
                                      [project |-> target_repo_id, data |-> pr_kwargs],
                                      CreateAns(w, "repo.create_pull", target_repo_id, pr_kwargs)),
                               Python("_convert_to_mr_resource", w.ans["conv"])>>
        f == FirstFail(plan)
    IN  IF src.kind = "raise" \/ tgt.kind = "raise"
        THEN [res |-> ExceptValueErrorAndSdk(PyErr("ValueError")), calls |-> <<>>]
        ELSE Done(IF f = 0
                  THEN Return(GitHubConvertToMrResource(plan[2].ans.obj, target_repo_id))
                  ELSE ExceptValueErrorAndSdk(plan[f].ans), plan)

\* Variant of GitLabAssigneeData that sends an assignee in every case: id 0
\* when the lookup raised or found nobody.
GitLabAssigneeDataAlways(users) ==
    IF users.ok /\ users.obj # <<>>
    THEN [assignee_id |-> users.obj[1].id] ELSE [assignee_id |-> 0]

\* try: users = client.users.list(...); if users: mr_data["assignee_id"] =
\* users[0].id; except Exception: skip the assignee
GitLabAssigneeData(users) ==
    IF users.ok /\ users.obj # <<>>
    THEN [assignee_id |-> users.obj[1].id] ELSE NoParams

GitLabCreateMergeRequest(args, w) ==
    LET src == GitLabParseBranchReference(args.source_branch)
        tgt == GitLabParseBranchReference(args.target_branch)
        source_ref == src.value
        target_ref == tgt.value
        source_project_id == args.project_id
        \* kwargs.get("target_project_id") and its truth value
        cross == "target_project_id" \in DOMAIN args.kwargs
                     /\ args.kwargs["target_project_id"] # <<>>
        target_project_id == args.kwargs["target_project_id"]
        fetches ==
            LET first == <<Native("projects.get", [id |-> source_project_id],
                                  ProjectAns("gitlab", w, "project", source_project_id))>>
            IN  IF cross /\ FirstFail(first) = 0
                THEN first \o <<Native("projects.get", [id |-> target_project_id],
                                       ProjectAns("gitlab", w, "project2", target_project_id))>>
                ELSE first
        src_list ==
            Native("project.branches.list",
                   [project |-> source_project_id, search |-> source_ref.branch],
                   BranchesAns("gitlab", w, "br_src", source_project_id, source_ref.branch))
        tgt_home == IF cross THEN target_project_id ELSE source_project_id
        tgt_list ==
            Native("project.branches.list",
                   [project |-> tgt_home, search |-> target_ref.branch],
                   BranchesAns("gitlab", w, "br_tgt", tgt_home, target_ref.branch))
        \* not any(b.name == branch for b in branches)
        src_missing == src_list.ans.ok /\ source_ref.branch \notin src_list.ans.obj
        tgt_missing == tgt_list.ans.ok /\ target_ref.branch \notin tgt_list.ans.obj
        \* cross-project: each check has its own try; same-project: one try
        \* holds both, so an error of the first check skips the second
        tgt_checked == ~src_missing /\ (cross \/ src_list.ans.ok)
        checks == IF tgt_checked THEN <<src_list, tgt_list>> ELSE <<src_list>>
        branch_missing == src_missing \/ (tgt_checked /\ tgt_missing)
        int_step == IF cross THEN <<IntStep(target_project_id)>> ELSE <<>>
        with_assignee == "assignee_username" \in DOMAIN args.kwargs
        users == UsersAns(w, args.kwargs["assignee_username"])
        lookup ==
            IF with_assignee
            THEN <<Native("users.list", [username |-> args.kwargs["assignee_username"]],
                          users)>>
            ELSE <<>>
        \* mr_data.update(kwargs) comes last: what is left in kwargs wins
        mr_data ==
            Remaining(args.kwargs, {"assignee_username", "description"})
                @@ Optional(args.kwargs, "description", "description")
                @@ (IF with_assignee THEN GitLabAssigneeData(users) ELSE NoParams)
                @@ (IF cross THEN [target_project_id |-> IntOf(target_project_id)]
                    ELSE NoParams)
                @@ [source_branch |-> source_ref.branch,
                    target_branch |-> target_ref.branch, title |-> args.title]
        create == <<Native("project.mergerequests.create",
                           [project |-> source_project_id, data |-> mr_data],
                           CreateAns(w, "project.mergerequests.create", source_project_id, mr_data)),
                    Python("_convert_to_mr_resource", w.ans["conv"])>>
        f == FirstFail(create)
    IN  IF src.kind = "raise" \/ tgt.kind = "raise"
        THEN [res |-> ExceptPlatformError(PyErr("ValueError")), calls |-> <<>>]
        ELSE IF FirstFail(fetches) # 0
        THEN Done(ExceptPlatformError(fetches[FirstFail(fetches)].ans), fetches)
        ELSE IF branch_missing
        THEN [res |-> Raise("PlatformError"), calls |-> NativeCalls(fetches \o checks)]
        ELSE IF FirstFail(int_step) # 0
        THEN [res |-> ExceptPlatformError(int_step[1].ans),
              calls |-> NativeCalls(fetches \o checks)]
        ELSE [res |-> IF f = 0
                      THEN Return(GitLabConvertToMrResource(create[1].ans.obj, args.project_id))
                      ELSE ExceptPlatformError(create[f].ans),
              calls |-> NativeCalls(fetches \o checks \o lookup \o Ran(create))]

(***************************************************************************)
(* The public methods that are called both on drawn environments and over  *)
(* a remote store, on the adapter instance self.                           *)
(***************************************************************************)
get_issue(self, args, w) ==
    IF self.platform = "github" THEN GitHubGetIssue(args, w) ELSE GitLabGetIssue(args, w)

create_issue(self, args, w) ==
    IF self.platform = "github" THEN GitHubCreateIssue(args, w) ELSE GitLabCreateIssue(args, w)

get_merge_request(self, args, w) ==
    IF self.platform = "github" THEN GitHubGetMergeRequest(args, w)
    ELSE GitLabGetMergeRequest(args, w)

create_merge_request(self, args, w) ==
    IF self.platform = "github" THEN GitHubCreateMergeRequest(args, w)
    ELSE GitLabCreateMergeRequest(args, w)

\* What a finished call created: the resource a create method returned and the
\* project it was called for.
Created(call) ==
    IF call.op \in {"create_issue", "create_merge_request"} /\ call.out.kind = "return"
    THEN [op |-> call.op, project_id |-> call.args.project_id, resource |-> call.out.value]
    ELSE NoCall

\* The record of a finished call: its outcome, the native calls it made,
\* whether it invoked authenticate and, over a remote store, what the call
\* before it created.
Finished(op, args, res, calls, auth, after) ==
    [op |-> op, args |-> args, out |-> res, calls |-> calls, auth |-> auth,
     after |-> after]

\* Every public method starts with
\*     if not self.client: await self.authenticate()
\* outside its try block, and then runs its body.  The results are the
\* outcomes the body has in the environments it may meet; an exception of
\* authenticate ends the call before the body runs.  Over a remote store the
\* native create calls of the body take effect on it.
Invoke(op, args, results) ==
    /\ adapter.client \/ authCalls < MaxCalls
    /\ \E auth_ans \in (IF adapter.client THEN {"ok"} ELSE AuthAnswers) :
          LET pre == IF adapter.client
                     THEN [a |-> adapter, res |-> Return(TRUE)]
                     ELSE authenticate(adapter, auth_ans)
              stored == remote # NoRemote
          IN  \E m \in (IF pre.res.kind = "raise"
                        THEN {[res |-> pre.res, calls |-> <<>>]}
                        ELSE results) :
                /\ adapter' = pre.a
                /\ authCalls' = IF adapter.client THEN authCalls ELSE authCalls + 1
                /\ last' = Finished(op, args, m.res, m.calls, ~adapter.client,
                                    IF stored THEN Created(last) ELSE NoCall)
                /\ remote' = IF stored THEN StoreAfter(remote, m.calls) ELSE remote
                /\ UNCHANGED <<tasks, LoggingConfig>>

(***************************************************************************)
(* The calls made on the adapter.  Identifiers are drawn numeric and       *)
(* non-numeric; the environment is drawn with at most one step failing.    *)
(***************************************************************************)
SampleProjectId == <<"1">>
SampleIds == {<<"1">>, <<"x">>}

\* The worlds of the methods that read a project whose fork status matters.
ForkWorlds(platform) ==
    DrawnWorlds(platform, {"project"})
        \cup {[OkWorld(platform) EXCEPT !.ans["project"] = OkAns(SampleFork)]}

\* Arguments of create_merge_request: plain, qualified and invalid branch
\* references, with and without a target project, with an assignee that is
\* and is not a user of the platform.
CreateMrArgs ==
    {[project_id |-> SampleProjectId, source_branch |-> s, target_branch |-> <<"b">>,
      title |-> "t1", kwargs |-> NoParams] : s \in {<<"a">>, <<"a", ":", "b">>, <<":">>}}
    \cup
    {[project_id |-> SampleProjectId, source_branch |-> <<"a">>,
      target_branch |-> <<"o", ":", "b">>, title |-> "t1", kwargs |-> NoParams]}
    \cup
    {[project_id |-> SampleProjectId, source_branch |-> <<"a">>, target_branch |-> <<"b">>,
      title |-> "t1", kwargs |-> [target_project_id |-> t]] : t \in {<<"2">>, <<"x">>}}
    \cup
    {[project_id |-> SampleProjectId, source_branch |-> <<"a">>, target_branch |-> <<"b">>,
      title |-> "t1", kwargs |-> [assignee_username |-> u]] : u \in {"other", "ghost"}}

TestConnection ==
    Invoke("test_connection", NoParams,
           {IF adapter.platform = "github"
            THEN GitHubTestConnection(NoParams, w)
            ELSE GitLabTestConnection(NoParams, w) :
               w \in DrawnWorlds(adapter.platform, {"act"})})

GetProject ==
    Invoke("get_project", [project_id |-> SampleProjectId],
           {IF adapter.platform = "github"
            THEN GitHubGetProject([project_id |-> SampleProjectId], w)
            ELSE GitLabGetProject([project_id |-> SampleProjectId], w) :
               w \in DrawnWorlds(adapter.platform, {"project", "conv"})})

DeleteProject ==
    Invoke("delete_project", [project_id |-> SampleProjectId],
           {IF adapter.platform = "github"
            THEN GitHubDeleteProject([project_id |-> SampleProjectId], w)
            ELSE GitLabDeleteProject([project_id |-> SampleProjectId], w) :
               w \in DrawnWorlds(adapter.platform, {"project", "act"})})

IsFork ==
    Invoke("is_fork", [project_id |-> SampleProjectId],
           {IF adapter.platform = "github"
            THEN GitHubIsFork([project_id |-> SampleProjectId], w)
            ELSE GitLabIsFork([project_id |-> SampleProjectId], w) :
               w \in ForkWorlds(adapter.platform)})

GetForkParent ==
    Invoke("get_fork_parent", [project_id |-> SampleProjectId],
           {IF adapter.platform = "github"
            THEN GitHubGetForkParent([project_id |-> SampleProjectId], w)
            ELSE GitLabGetForkParent([project_id |-> SampleProjectId], w) :
               w \in ForkWorlds(adapter.platform)})

GetIssue ==
    \E id \in SampleIds :
        Invoke("get_issue", [project_id |-> SampleProjectId, issue_id |-> id],
               {get_issue(adapter, [project_id |-> SampleProjectId, issue_id |-> id], w) :
                   w \in DrawnWorlds(adapter.platform, {"project", "issue", "comments", "conv"})})

CreateIssue ==
    Invoke("create_issue", [project_id |-> SampleProjectId, title |-> "t1"],
           {create_issue(adapter, [project_id |-> SampleProjectId, title |-> "t1"], w) :
               w \in DrawnWorlds(adapter.platform, {"project", "new_issue", "conv"})})

CreateIssueComment ==
    \E id \in SampleIds :
        Invoke("create_issue_comment", [project_id |-> SampleProjectId, issue_id |-> id, body |-> "hi"],
               {IF adapter.platform = "github"
                THEN GitHubCreateIssueComment([project_id |-> SampleProjectId, issue_id |-> id, body |-> "hi"], w)
                ELSE GitLabCreateIssueComment([project_id |-> SampleProjectId, issue_id |-> id, body |-> "hi"], w) :
                   w \in DrawnWorlds(adapter.platform, {"project", "issue", "act", "conv"})})

GetMergeRequest ==
    \E id \in SampleIds :
        Invoke("get_merge_request", [project_id |-> SampleProjectId, mr_id |-> id],
               {get_merge_request(adapter, [project_id |-> SampleProjectId, mr_id |-> id], w) :
                   w \in DrawnWorlds(adapter.platform, {"project", "mr", "conv"})})

GetMergeRequestDiff ==
    \E id \in SampleIds,
       options \in {NoParams, [include_diff |-> TRUE], [include_diff |-> FALSE]} :
        LET args == [project_id |-> SampleProjectId, mr_id |-> id, options |-> options]
        IN  Invoke("get_merge_request_diff", args,
                   {IF adapter.platform = "github"
                    THEN GitHubGetMergeRequestDiff(args, w)
                    ELSE GitLabGetMergeRequestDiff(args, w) :
                       w \in DrawnWorlds(adapter.platform, {"project", "mr", "files", "conv"})})

GetMergeRequestCommits ==
    \E id \in SampleIds :
        Invoke("get_merge_request_commits", [project_id |-> SampleProjectId, mr_id |-> id],
               {IF adapter.platform = "github"
                THEN GitHubGetMergeRequestCommits([project_id |-> SampleProjectId, mr_id |-> id], w)
                ELSE GitLabGetMergeRequestCommits([project_id |-> SampleProjectId, mr_id |-> id], w) :
                   w \in DrawnWorlds(adapter.platform, {"project", "mr", "commits", "conv"})})

CreateMergeRequest ==
    \E args \in CreateMrArgs :
        Invoke("create_merge_request", args,
               {create_merge_request(adapter, args, w) :
                   \* one step failing, or a branch that does not exist
                   w \in DrawnWorlds(adapter.platform, {"project", "project2", "br_src",
                                                        "br_tgt", "users", "new_mr",
                                                        "conv"})
                         \cup {[OkWorld(adapter.platform) EXCEPT !.ans[s] = OkAns({})] :
                                  s \in {"br_src", "br_tgt"}}})

Init ==
    /\ adapter \in {NewAdapter(p, t) : p \in Platforms, t \in BOOLEAN}
    /\ authCalls = 0
    /\ last = NoCall
    /\ remote = NoRemote
    /\ tasks = <<>>
    /\ LoggingConfig = LoggingConfigClass

Next ==
    \/ TestConnection
    \/ GetProject
    \/ DeleteProject
    \/ IsFork
    \/ GetForkParent
    \/ GetIssue
    \/ CreateIssue
    \/ CreateIssueComment
    \/ GetMergeRequest
    \/ GetMergeRequestDiff
    \/ GetMergeRequestCommits
    \/ CreateMergeRequest

Spec == Init /\ [][Next]_vars

(***************************************************************************)
(* Properties of the adapter under Spec.                                   *)
(***************************************************************************)
Raised == last.op # "none" /\ last.out.kind = "raise"
Returned == last.op # "none" /\ last.out.kind = "return"

\* C3 (as stated): test_connection never raises; in every adapter state it
\* ends by returning a boolean.
C3_TestConnectionNeverRaises ==
    last.op = "test_connection" => (Returned /\ last.out.value \in BOOLEAN)

\* The four error kinds of core/exceptions.py that callers are meant to see.
ModuleErrors == {"AuthenticationError", "PlatformError", "ResourceNotFoundError", "NetworkError"}

\* C4 (as stated): whatever fails inside a public method, the exception that
\* reaches the caller is AuthenticationError, PlatformError,
\* ResourceNotFoundError or NetworkError.
C4_OnlyModuleErrors == Raised => last.out.exc \in ModuleErrors

\* The native calls that fetch the project, the issue or the merge request.
FetchApis == {"get_repo", "projects.get", "repo.get_issue", "project.issues.get",
              "repo.get_pull", "project.mergerequests.get"}

\* The last native call of the finished method.
LastNative == last.calls[Len(last.calls)]

\* The method ended on a native call that raised the SDK's error.
NativeFailed == last.op # "none" /\ last.calls # <<>> /\ ~LastNative.ok

\* The native fetch of the project, issue or merge request answered 404.
Fetch404 == NativeFailed /\ LastNative.api \in FetchApis /\ LastNative.status = 404

SoftGets == {"get_project", "get_issue", "get_merge_request"}
HardGets == {"get_merge_request_diff", "get_merge_request_commits"}

HardFailOps == {"delete_project", "is_fork", "get_fork_parent"}

\* A native call of the finished method answered 404.
Native404 == NativeFailed /\ LastNative.status = 404

\* C6 (as stated): delete_project, is_fork and get_fork_parent raise
\* ResourceNotFoundError exactly when the native side answers 404, and
\* PlatformError for every other native SDK error.
C6_NotFoundExactlyOn404 ==
    last.op \in HardFailOps =>
        /\ Native404 => last.out = Raise("ResourceNotFoundError")
        /\ (NativeFailed /\ ~Native404) => last.out = Raise("PlatformError")
        /\ last.out = Raise("ResourceNotFoundError") => Native404

\* C7: a public method call that finds no client handle invokes authenticate,
\* and once an authentication has succeeded on the instance no later call
\* invokes it again.
C7_LazyAuthOnce ==
    [][/\ ~adapter.client => authCalls' = authCalls + 1
       /\ adapter.authed => authCalls' = authCalls]_vars

\* Witness of C7: after a failed and then a successful authentication, a later
\* call has run on the instance without authenticating.
C7_Witness ==
    /\ adapter.authed
    /\ authCalls = MaxCalls
    /\ last.op = "create_issue_comment"
    /\ ~last.auth
    /\ Returned

\* C11: in the result of get_merge_request_diff, on both adapters, no file
\* entry with binary = TRUE has a 'diff' key, and when include_diff is FALSE
\* no file entry has a 'diff' key.
C11_DiffOmitted ==
    (last.op = "get_merge_request_diff" /\ Returned) =>
        \A i \in 1..Len(last.out.value.files) :
            LET entry == last.out.value.files[i]
            IN  /\ entry.binary => "diff" \notin DOMAIN entry
                /\ ("include_diff" \in DOMAIN last.args.options
                        /\ ~last.args.options["include_diff"])
                       => "diff" \notin DOMAIN entry

\* Witness of C11: a GitHub diff with diffs wanted that lists a binary file
\* whose native patch is not empty, next to a text file that carries its diff.
C11_Witness ==
    /\ adapter.platform = "github"
    /\ last.op = "get_merge_request_diff"
    /\ Returned
    /\ "include_diff" \notin DOMAIN last.args.options
    /\ Len(last.out.value.files) = 4
    /\ last.out.value.files[2].binary
    /\ "diff" \notin DOMAIN last.out.value.files[2]
    /\ "diff" \in DOMAIN last.out.value.files[1]

\* The text ends with the bare branch name, after a colon or from its start.
IsBranchOf(branch, text) ==
    /\ ~HasColon(branch)
    /\ Len(text) >= Len(branch)
    /\ SubSeq(text, Len(text) - Len(branch) + 1, Len(text)) = branch
    /\ Len(text) > Len(branch) => text[Len(text) - Len(branch)] = ":"

Authenticated(platform) == authenticate(NewAdapter(platform, TRUE), "ok").a

\* The entries a caller may give for one filter key: none, or one of the values.
Entry(key, values) == {NoParams} \cup {[k \in {key} |-> v] : v \in values}

\* Generic filter mappings: state, labels (one string or a list) and assignee
\* in every combination, and an author filter with and without a state.
SampleFilters ==
    {s @@ l @@ a : s \in Entry("state", {"opened", "closed", "all", "merged"}),
                   l \in Entry("labels", {StrVal("bug"), ListVal(<<"bug", "ui">>)}),
                   a \in Entry("assignee", {"me", "other", "ghost"})}
    \cup {[author |-> "me"] @@ s : s \in Entry("state", {"opened"})}

\* The filters the list commands of the CLI add for each value of --sort.
sort_mapping ==
    [created_asc |-> [order_by |-> "created_at", sort |-> "asc"],
     created_desc |-> [order_by |-> "created_at", sort |-> "desc"],
     updated_asc |-> [order_by |-> "updated_at", sort |-> "asc"],
     updated_desc |-> [order_by |-> "updated_at", sort |-> "desc"]]

\* Native list answers: issues of two projects, on GitLab one assigned to
\* the user and one to another user.
SampleIssueList(platform) ==
    IF platform = "github"
    THEN <<[GitHubIssueObj(1, "t1") EXCEPT !.assignee = "me"] @@ [repository |-> <<"1">>],
           GitHubIssueObj(1, "t2") @@ [repository |-> <<"2">>]>>
    ELSE <<[GitLabIssueObj(1, "t1", 1) EXCEPT !.assignee = "me"],
           [GitLabIssueObj(1, "t2", 2) EXCEPT !.assignee = "other"]>>

SampleMrList(platform) ==
    IF platform = "github"
    THEN <<GitHubPrObj(1, "t1", <<"a">>, <<"b">>),
           [GitHubPrObj(2, "t2", <<"a">>, <<"b">>) EXCEPT !.user = "other"]>>
    ELSE <<GitLabMrObj(1, "t1", 1, 1, <<"a">>, <<"b">>),
           [GitLabMrObj(2, "t2", 1, 1, <<"a">>, <<"b">>) EXCEPT !.author = "other"]>>

\* The worlds of the list methods: lists empty or not, the list call failing,
\* the user lookup finding nobody or failing.
ListWorlds(platform) ==
    {OkWorld(platform),
     [OkWorld(platform) EXCEPT !.ans["issues"] = OkAns(SampleIssueList(platform)),
                               !.ans["mrs"] = OkAns(SampleMrList(platform))],
     [OkWorld(platform) EXCEPT !.ans["issues"] = SdkErr(platform, 500, FALSE),
                               !.ans["mrs"] = SdkErr(platform, 500, FALSE)],
     [OkWorld(platform) EXCEPT !.ans["users"] = OkAns(<<>>)],
     [OkWorld(platform) EXCEPT !.ans["users"] = SdkErr(platform, 500, FALSE),
                               !.ans["issues"] = OkAns(SampleIssueList(platform))]}

ListIssues ==
    \E filters \in SampleFilters \cup {sort_mapping[s] : s \in DOMAIN sort_mapping} :
        Invoke("list_issues", [project_id |-> SampleProjectId, filters |-> filters],
               {IF adapter.platform = "github"
                THEN GitHubListIssues([project_id |-> SampleProjectId, filters |-> filters], w)
                ELSE GitLabListIssues([project_id |-> SampleProjectId, filters |-> filters], w) :
                   w \in ListWorlds(adapter.platform)})

ListMergeRequests ==
    \E filters \in SampleFilters \cup {sort_mapping[s] : s \in DOMAIN sort_mapping} :
        Invoke("list_merge_requests", [project_id |-> SampleProjectId, filters |-> filters],
               {IF adapter.platform = "github"
                THEN GitHubListMergeRequests([project_id |-> SampleProjectId, filters |-> filters], w)
                ELSE GitLabListMergeRequests([project_id |-> SampleProjectId, filters |-> filters], w) :
                   w \in ListWorlds(adapter.platform)})

\* PlatformService.list_my_merge_requests, with PlatformService.
\* list_merge_requests behind it: the user name is the configured one, else
\* the one the API resolves; it becomes the author filter, state and per_page
\* are set, the adapter lists, and every exception is raised again as
\* Exception.
list_my_merge_requests(self, args, w) ==
    LET resolve == IF args.configured = "None"
                   THEN <<Native("get_current_user", NoParams, w.ans["act"])>> ELSE <<>>
        username == IF args.configured # "None" THEN args.configured
                    ELSE IF w.ans["act"].ok THEN self.username ELSE "None"
        filters == [state |-> args.state, per_page |-> args.limit]
                       @@ [author |-> username] @@ args.filters
        listed == IF self.platform = "github"
                  THEN GitHubListMergeRequests([project_id |-> args.project_id,
                                                filters |-> filters], w)
                  ELSE GitLabListMergeRequests([project_id |-> args.project_id,
                                                filters |-> filters], w)
        mrs == listed.res.value
    IN  IF username = "None"
        THEN [res |-> Raise("Exception"), calls |-> NativeCalls(resolve)]
        ELSE [res |-> IF listed.res.kind = "raise" THEN Raise("Exception")
                      ELSE Return([i \in 1..Len(mrs) |->
                                     [id |-> mrs[i].id, title |-> mrs[i].title,
                                      state |-> mrs[i].state, author |-> mrs[i].author,
                                      source_branch |-> mrs[i].source_branch,
                                      target_branch |-> mrs[i].target_branch,
                                      platform |-> self.platform,
                                      project_id |-> args.project_id]]),
              calls |-> NativeCalls(resolve) \o listed.calls]

ListMyMergeRequests ==
    \E configured \in {"me", "None"}, state \in {"opened", "all"},
       filters \in {NoParams, [author |-> "other"]} :
        LET args == [project_id |-> SampleProjectId, state |-> state, limit |-> 20,
                     filters |-> filters, configured |-> configured]
        IN  Invoke("list_my_merge_requests", args,
                   {list_my_merge_requests(adapter, args, w) :
                       w \in ListWorlds(adapter.platform)
                             \cup DrawnWorlds(adapter.platform, {"act"})})

ListAllIssues ==
    \E filters \in SampleFilters :
        Invoke("list_all_issues", [filters |-> filters],
               {IF adapter.platform = "github"
                THEN GitHubListAllIssues(adapter, [filters |-> filters], w)
                ELSE GitLabListAllIssues(adapter, [filters |-> filters], w) :
                   w \in ListWorlds(adapter.platform)})

InitFilter ==
    /\ adapter \in {Authenticated(p) : p \in Platforms}
    /\ authCalls = 1
    /\ last = NoCall
    /\ remote = NoRemote
    /\ tasks = <<>>
    /\ LoggingConfig = LoggingConfigClass

NextFilter ==
    \/ ListIssues
    \/ ListMergeRequests
    \/ ListMyMergeRequests
    \/ ListAllIssues

SpecFilter == InitFilter /\ [][NextFilter]_vars

\* The native list calls, and the native search call.
ListApis == {"repo.get_issues", "repo.get_pulls", "project.issues.list",
             "project.mergerequests.list", "issues.list"}
SearchApi == "search_issues"

ListOps == {"list_issues", "list_merge_requests", "list_all_issues"}

\* The finished call was a list operation given the generic state s.
ListedWithState(s) ==
    /\ last.op \in ListOps
    /\ "state" \in DOMAIN last.args.filters
    /\ last.args.filters["state"] = s

\* A search query holds the qualifier name:value.
HasQualifier(query, name, value) ==
    \E i \in 1..Len(query) : query[i] = Qualifier(name, value)

HasStateQualifier(query) == \E i \in 1..Len(query) : query[i].q = "state"

\* C8 (as stated): the generic state 'opened' reaches every GitHub native
\* list call as state=open and the GitHub search as the qualifier state:open;
\* it reaches every GitLab native list call unchanged as state=opened.
C8_OpenedMapping ==
    ListedWithState("opened") =>
        \A i \in 1..Len(last.calls) :
            LET c == last.calls[i]
            IN  /\ c.api \in ListApis =>
                     /\ "state" \in DOMAIN c.params
                     /\ c.params["state"] =
                            (IF adapter.platform = "github" THEN "open" ELSE "opened")
                /\ c.api = SearchApi => HasQualifier(c.params.query, "state", "open")

\* C9 (as stated): when the generic filter mapping carries state 'all', no
\* native list call gets a state parameter and the GitHub search query holds
\* no state qualifier.
C9_AllOmitsState ==
    ListedWithState("all") =>
        \A i \in 1..Len(last.calls) :
            LET c == last.calls[i]
            IN  /\ c.api \in ListApis => "state" \notin DOMAIN c.params
                /\ c.api = SearchApi => ~HasStateQualifier(c.params.query)

\* C14 (as stated): a labels filter given as one string reaches the native
\* list call of either adapter as the one-element list of that string, and a
\* labels filter given as a list reaches it unchanged.
C14_LabelsAsList ==
    (last.op \in ListOps /\ "labels" \in DOMAIN last.args.filters) =>
        \A i \in 1..Len(last.calls) :
            LET c == last.calls[i]
                given == last.args.filters["labels"]
            IN  (c.api \in ListApis /\ "labels" \in DOMAIN c.params) =>
                    c.params["labels"] =
                        (IF IsStr(given) THEN ListVal(<<given.str>>) ELSE given)

\* C17 (as stated): list_my_merge_requests returns only merge requests whose
\* author is the current user, on either backend.
C17_OnlyMyMergeRequests ==
    (last.op = "list_my_merge_requests" /\ Returned) =>
        \A i \in 1..Len(last.out.value) : last.out.value[i].author = adapter.username

\* C22: GitLab list_all_issues with an assignee filter equal to the adapter's
\* user name passes scope=assigned_to_me to the global issues listing and
\* makes no user lookup; with any other assignee it makes the user lookup
\* before any global issues listing.
C22_AssigneePaths ==
    (/\ adapter.platform = "gitlab"
     /\ last.op = "list_all_issues"
     /\ "assignee" \in DOMAIN last.args.filters) =>
        IF last.args.filters["assignee"] = adapter.username
        THEN \A i \in 1..Len(last.calls) :
                /\ last.calls[i].api # "users.list"
                /\ last.calls[i].api = "issues.list" =>
                       /\ "scope" \in DOMAIN last.calls[i].params
                       /\ last.calls[i].params["scope"] = "assigned_to_me"
        ELSE /\ last.calls # <<>>
             /\ last.calls[1].api = "users.list"

\* Witness of C22: the global listing has been called on the
\* scope=assigned_to_me path.
C22_Witness ==
    /\ adapter.platform = "gitlab"
    /\ last.op = "list_all_issues"
    /\ "assignee" \in DOMAIN last.args.filters
    /\ last.args.filters["assignee"] = adapter.username
    /\ Returned
    /\ Len(last.out.value) > 0
    /\ \E i \in 1..Len(last.calls) : last.calls[i].api = "issues.list"

\* The user lookup of the finished list_all_issues raised.
UsersLookupRaised ==
    \E i \in 1..Len(last.calls) : last.calls[i].api = "users.list" /\ ~last.calls[i].ok

\* C23: GitLab list_all_issues with an assignee other than the adapter's user
\* never raises because of the user lookup: when the lookup is answered and
\* no user has that name the result is the empty list; when the lookup raises
\* the global listing is still called, and what is returned holds only issues
\* whose assignee is the requested user.
C23_LookupNeverFatal ==
    (/\ adapter.platform = "gitlab"
     /\ last.op = "list_all_issues"
     /\ "assignee" \in DOMAIN last.args.filters
     /\ last.args.filters["assignee"] # adapter.username) =>
        /\ (/\ ~UsersLookupRaised
            /\ \A i \in 1..Len(SampleObj("gitlab", "users")) :
                   SampleObj("gitlab", "users")[i].username
                       # last.args.filters["assignee"])
               => (Returned /\ last.out.value = <<>>)
        /\ UsersLookupRaised =>
               /\ \E i \in 1..Len(last.calls) :
                      /\ last.calls[i].api = "issues.list"
                      /\ last.calls[i].ok => Returned
               /\ Returned =>
                      \A i \in 1..Len(last.out.value) :
                          last.out.value[i].assignee = last.args.filters["assignee"]

\* Witness of C23: the user lookup raised and the listing, which holds issues
\* of two assignees, came back with the one issue of the requested user.
C23_Witness ==
    /\ adapter.platform = "gitlab"
    /\ last.op = "list_all_issues"
    /\ UsersLookupRaised
    /\ Returned
    /\ Len(last.out.value) = 1
    /\ Len(SampleIssueList("gitlab")) = 2

\* C29 (as stated): GitLab list_all_issues on the scope=assigned_to_me path
\* keeps the caller's other filters: a labels filter given together with an
\* assignee equal to the adapter's user name is among the native parameters
\* of the global issues listing.
C29_AssignedToMeKeepsLabels ==
    (/\ adapter.platform = "gitlab"
     /\ last.op = "list_all_issues"
     /\ "assignee" \in DOMAIN last.args.filters
     /\ last.args.filters["assignee"] = adapter.username
     /\ "labels" \in DOMAIN last.args.filters) =>
        \A i \in 1..Len(last.calls) :
            last.calls[i].api = "issues.list" => "labels" \in DOMAIN last.calls[i].params

\* C25 (as stated): for each CLI sort value created_asc, created_desc,
\* updated_asc, updated_desc a GitLab list operation receives order_by
\* created_at or updated_at and sort asc or desc matching the value, and a
\* GitHub list operation receives native sort created or updated and native
\* direction asc or desc matching the value.
C25_SortMapping ==
    \A s \in DOMAIN sort_mapping :
        (last.op \in {"list_issues", "list_merge_requests"}
             /\ last.args.filters = sort_mapping[s]) =>
            \A i \in 1..Len(last.calls) :
                LET c == last.calls[i]
                    created == s \in {"created_asc", "created_desc"}
                    asc == s \in {"created_asc", "updated_asc"}
                IN  c.api \in ListApis =>
                        IF adapter.platform = "gitlab"
                        THEN /\ "order_by" \in DOMAIN c.params
                             /\ c.params["order_by"]
                                    = (IF created THEN "created_at" ELSE "updated_at")
                             /\ "sort" \in DOMAIN c.params
                             /\ c.params["sort"] = (IF asc THEN "asc" ELSE "desc")
                        ELSE /\ "sort" \in DOMAIN c.params
                             /\ c.params["sort"] = (IF created THEN "created" ELSE "updated")
                             /\ "direction" \in DOMAIN c.params
                             /\ c.params["direction"] = (IF asc THEN "asc" ELSE "desc")

(***************************************************************************)
(* Create and get over a remote store, on an adapter that has              *)
(* authenticated.  The store holds, per project, its issues and merge      *)
(* requests in the order of their numbers, and its branches.               *)
(***************************************************************************)
StoreProjects(platform) ==
    IF platform = "github"
    THEN {<<"o", "/", "r">>, <<"f", "/", "r">>}
    ELSE {<<"1">>, <<"2">>}

EmptyStore(platform) ==
    [issues |-> [p \in StoreProjects(platform) |-> <<>>],
     mrs |-> [p \in StoreProjects(platform) |-> <<>>],
     branches |-> [p \in StoreProjects(platform) |-> {<<"a">>, <<"b">>}]]

\* Number of issues and merge requests a store holds.
RECURSIVE StoreSizeOver(_, _)
StoreSizeOver(r, projects) ==
    IF projects = {} THEN 0
    ELSE LET p == CHOOSE x \in projects : TRUE
         IN  Len(r.issues[p]) + Len(r.mrs[p]) + StoreSizeOver(r, projects \ {p})

StoreIds == {StrOf(n) : n \in 1..MaxItems}

StoreCreateIssue ==
    /\ StoreSizeOver(remote, DOMAIN remote.issues) < MaxItems
    /\ \E pid \in StoreProjects(adapter.platform), title \in {"t1", "t2"} :
          Invoke("create_issue", [project_id |-> pid, title |-> title],
                 {create_issue(adapter, [project_id |-> pid, title |-> title], w) :
                     w \in {StoreWorld(adapter.platform, remote)}})

StoreGetIssue ==
    \E pid \in StoreProjects(adapter.platform), id \in StoreIds :
        Invoke("get_issue", [project_id |-> pid, issue_id |-> id],
               {get_issue(adapter, [project_id |-> pid, issue_id |-> id], w) :
                   w \in {StoreWorld(adapter.platform, remote)}})

StoreCreateMergeRequest ==
    /\ StoreSizeOver(remote, DOMAIN remote.issues) < MaxItems
    /\ \E pid \in StoreProjects(adapter.platform), title \in {"t1", "t2"},
          \* the source is a branch of the project, or on GitHub of a fork;
          \* branch c exists nowhere
          source \in (IF adapter.platform = "github"
                      THEN {<<"a">>, <<"f", ":", "a">>, <<"c">>, <<"f", ":", "c">>}
                      ELSE {<<"a">>, <<"c">>}),
          target \in {<<"b">>, <<"c">>} :
          \* on GitLab the target may be the other project
          \E kwargs \in (IF adapter.platform = "github" THEN {NoParams}
                         ELSE {NoParams} \cup
                              {[target_project_id |-> q] :
                                  q \in StoreProjects(adapter.platform) \ {pid}}) :
              Invoke("create_merge_request", [project_id |-> pid, source_branch |-> source, target_branch |-> target, title |-> title, kwargs |-> kwargs],
                     {create_merge_request(adapter, [project_id |-> pid, source_branch |-> source, target_branch |-> target, title |-> title, kwargs |-> kwargs], w) :
                         w \in {StoreWorld(adapter.platform, remote)}})

StoreGetMergeRequest ==
    \E pid \in StoreProjects(adapter.platform), id \in StoreIds :
        Invoke("get_merge_request", [project_id |-> pid, mr_id |-> id],
               {get_merge_request(adapter, [project_id |-> pid, mr_id |-> id], w) :
                   w \in {StoreWorld(adapter.platform, remote)}})

StoreMergeMergeRequest ==
    \E pid \in StoreProjects(adapter.platform), id \in StoreIds :
        LET args == [project_id |-> pid, mr_id |-> id, kwargs |-> NoParams]
        IN  Invoke("merge_merge_request", args,
                   {IF adapter.platform = "github"
                    THEN GitHubMergeMergeRequest(args, StoreWorld(adapter.platform, remote))
                    ELSE GitLabMergeMergeRequest(args, StoreWorld(adapter.platform, remote))})

InitStore ==
    /\ adapter \in {Authenticated(p) : p \in Platforms}
    /\ authCalls = 1
    /\ last = NoCall
    /\ remote = EmptyStore(adapter.platform)
    /\ tasks = <<>>
    /\ LoggingConfig = LoggingConfigClass

NextStore ==
    \/ StoreCreateIssue
    \/ StoreGetIssue
    \/ StoreCreateMergeRequest
    \/ StoreGetMergeRequest
    \/ StoreMergeMergeRequest

SpecStore == InitStore /\ [][NextStore]_vars

\* Two resources agree in id, title and state.
SameResource(x, y) == x.id = y.id /\ x.title = y.title /\ x.state = y.state

\* The finished call is the get that reads back what the call before it
\* created: get_issue(P, R.id) after create_issue for project P returned R,
\* get_merge_request(R.project_id, R.id) after create_merge_request returned R.
ReadsBack ==
    /\ last.op \in {"get_issue", "get_merge_request"}
    /\ last.after # NoCall
    /\ \/ /\ last.op = "get_issue"
          /\ last.after.op = "create_issue"
          /\ last.args.project_id = last.after.project_id
          /\ last.args.issue_id = last.after.resource.id
       \/ /\ last.op = "get_merge_request"
          /\ last.after.op = "create_merge_request"
          /\ last.args.project_id = last.after.resource.project_id
          /\ last.args.mr_id = last.after.resource.id

\* C10 (as stated): the get that reads back a just created issue or merge
\* request returns a resource with the same id, title and state, on both
\* adapters, for same-project and cross-project merge requests.
C10_RoundTrip ==
    ReadsBack =>
        /\ last.out.kind = "return"
        /\ last.out.value # None
        /\ SameResource(last.out.value, last.after.resource)

\* C13 (as stated): a GitHub pull request whose native merged flag is set is
\* normalized to state merged; the resource returned by a successful
\* merge_merge_request, and by a later get_merge_request of that pull
\* request, has state merged.
C13_MergedState ==
    (adapter.platform = "github" /\ Returned /\ last.out.value # None) =>
        /\ last.op = "merge_merge_request" => last.out.value.state = "merged"
        /\ (last.op = "get_merge_request"
                /\ remote.mrs[last.args.project_id][IntOf(last.args.mr_id)].merged)
               => last.out.value.state = "merged"

\* The native calls that fetch the comments of an issue.
CommentApis == {"issue.get_comments", "issue.notes.list"}

\* C15: when the issue is fetched and fetching its comments fails, get_issue
\* raises nothing and returns the issue with the id, title and state it has
\* without the failure, and its metadata has no 'comments' entry.
C15_CommentFailureKeepsIssue ==
    (last.op = "get_issue" /\ NativeFailed /\ LastNative.api \in CommentApis) =>
        /\ Returned
        /\ last.out.value # None
        /\ "comments" \notin DOMAIN last.out.value.metadata
        /\ SameResource(last.out.value,
                        get_issue(adapter, last.args, OkWorld(adapter.platform)).res.value)

\* Witness of C15: a GitLab get_issue whose notes call failed has returned
\* the issue.
C15_Witness ==
    /\ adapter.platform = "gitlab"
    /\ last.op = "get_issue"
    /\ NativeFailed
    /\ LastNative.api = "issue.notes.list"
    /\ Returned
    /\ last.out.value # None

\* C16: every entry of metadata['comments'] returned by get_issue has
\* system = FALSE; on GitLab the entries are the notes whose system flag is
\* not set, in the order of the notes, and on GitHub the native comments in
\* their order.
C16_UserCommentsOnly ==
    (last.op = "get_issue" /\ Returned /\ last.out.value # None
        /\ "comments" \in DOMAIN last.out.value.metadata) =>
        LET entries == last.out.value.metadata["comments"]
            native == SampleComments(adapter.platform)
            kept == IF adapter.platform = "github" THEN native
                    ELSE SelectSeq(native, LAMBDA note : "system" \notin DOMAIN note
                                                            \/ ~note.system)
        IN  /\ \A i \in 1..Len(entries) : entries[i].system = FALSE
            /\ Len(entries) = Len(kept)
            /\ \A i \in 1..Len(entries) :
                   /\ entries[i].id = StrOf(kept[i].id)
                   /\ entries[i].body = kept[i].body

\* Witness of C16: a GitLab get_issue has returned two comments out of four
\* notes.
C16_Witness ==
    /\ adapter.platform = "gitlab"
    /\ last.op = "get_issue"
    /\ Returned
    /\ last.out.value # None
    /\ "comments" \in DOMAIN last.out.value.metadata
    /\ Len(last.out.value.metadata["comments"]) = 2
    /\ Len(SampleComments("gitlab")) = 4

\* C24 (as stated): the status of every file entry of GitLab's
\* get_merge_request_diff is one of the four values GitHub entries use:
\* added, removed, modified, renamed.
C24_FourWayStatus ==
    (/\ adapter.platform = "gitlab"
     /\ last.op = "get_merge_request_diff"
     /\ Returned) =>
        \A i \in 1..Len(last.out.value.files) :
            last.out.value.files[i].status \in {"added", "removed", "modified", "renamed"}

\* The user lookup of the finished create_merge_request raised, or it was
\* answered and the assignee is no user of the platform.
UserLookupFailed ==
    \/ \E i \in 1..Len(last.calls) :
          last.calls[i].api = "users.list" /\ ~last.calls[i].ok
    \/ /\ "assignee_username" \in DOMAIN last.args.kwargs
       /\ adapter.platform = "gitlab"
       /\ \A i \in 1..Len(SampleObj("gitlab", "users")) :
              SampleObj("gitlab", "users")[i].username
                  # last.args.kwargs["assignee_username"]
       /\ \E i \in 1..Len(last.calls) : last.calls[i].api = "users.list"

\* A secondary lookup of the finished create_merge_request went wrong: a
\* branch-list query raised or the user lookup failed.
SecondaryLookupFailed ==
    \/ UserLookupFailed
    \/ \E i \in 1..Len(last.calls) :
          last.calls[i].api = "project.branches.list" /\ ~last.calls[i].ok

\* C21: a failed secondary lookup of create_merge_request never aborts the
\* creation: when nothing but the lookup goes wrong (a target project id, if
\* given, is a number) the native create call is issued after it, without an
\* assignee when the user lookup raised or found nobody, and the merge request
\* it answers with is returned unless its conversion raises.
C21_SecondaryLookupAdvisory ==
    (/\ last.op = "create_merge_request"
     /\ SecondaryLookupFailed
     /\ "target_project_id" \in DOMAIN last.args.kwargs
            => IsNumeric(last.args.kwargs["target_project_id"])) =>
        \E i \in 1..Len(last.calls) :
              /\ last.calls[i].api = "project.mergerequests.create"
              /\ last.calls[i].ok => (Returned \/ last.out.exc = "AttributeError")
              /\ \A j \in 1..Len(last.calls) :
                    last.calls[j].api \in {"project.branches.list", "users.list"} => j < i
              /\ UserLookupFailed => "assignee_id" \notin DOMAIN last.calls[i].params.data

\* Witness of C21: each of the secondary lookups has failed before a creation
\* that returned its merge request; here the user lookup raised.
C21_Witness ==
    /\ last.op = "create_merge_request"
    /\ Returned
    /\ \E i \in 1..Len(last.calls) : last.calls[i].api = "users.list" /\ ~last.calls[i].ok
    /\ \E i \in 1..Len(last.calls) : last.calls[i].api = "project.mergerequests.create"

\* The parsed source branch is absent from the source repository, or the
\* parsed target branch from the target repository, of the finished
\* create_merge_request; the store answers every branch-list query.
BranchAbsent ==
    LET source == parse_branch_reference(adapter.platform, last.args.source_branch).value
        target == parse_branch_reference(adapter.platform, last.args.target_branch).value
        source_home == IF adapter.platform = "github"
                       THEN GitHubHeadHome(last.args.project_id, last.args.source_branch)
                       ELSE last.args.project_id
        target_home == IF "target_project_id" \in DOMAIN last.args.kwargs
                       THEN last.args.kwargs["target_project_id"]
                       ELSE last.args.project_id
    IN  \/ source.branch \notin remote.branches[source_home]
        \/ target.branch \notin remote.branches[target_home]

\* C20 (as stated): on both adapters, when the branch-list query succeeds and
\* the parsed source branch is absent from the source repository, or the
\* parsed target branch from the target repository, create_merge_request
\* raises PlatformError and the native create call is never issued.
C20_AbsentBranchStopsCreate ==
    (last.op = "create_merge_request" /\ BranchAbsent) =>
        /\ last.out.kind = "raise" /\ last.out.exc = "PlatformError"
        /\ \A i \in 1..Len(last.calls) :
               last.calls[i].api \notin {"repo.create_pull", "project.mergerequests.create"}

\* C30 (as stated): the project_id of the resource returned by
\* create_merge_request names the project in which the merge request lives:
\* for a GitLab merge request created with target_project_id T from another
\* source project the returned project_id is T, and on GitHub it is the
\* repository the pull request was created on.
C30_ProjectIdIsHome ==
    (last.op = "create_merge_request" /\ Returned) =>
        /\ last.out.value.project_id \in DOMAIN remote.mrs
        /\ IntOf(last.out.value.id) \in 1..Len(remote.mrs[last.out.value.project_id])
        /\ "target_project_id" \in DOMAIN last.args.kwargs
               => last.out.value.project_id = last.args.kwargs["target_project_id"]

\* C19 (as stated): in every reachable state of an adapter instance a set
\* client handle implies that authentication succeeded; after authenticate
\* failed the instance holds no client handle.
C19_ClientImpliesAuthenticated ==
    adapter.client => adapter.authed

(***************************************************************************)
(* Concurrent calls of one public method, get_project, on one adapter      *)
(* instance.  The adapters hold no lock: the test of the client handle,    *)
(* the assignment of the handle inside authenticate, the verifying call    *)
(* and the body of the method are steps of their own, and the steps of     *)
(* calls made from different threads interleave freely.                    *)
(***************************************************************************)

\* The instance is fresh or has authenticated; every call has been issued and
\* none has taken a step.
InitConcurrent ==
    /\ adapter \in {NewAdapter(p, t) : p \in Platforms, t \in BOOLEAN}
                       \cup {Authenticated(p) : p \in Platforms}
    /\ authCalls = IF adapter.client THEN 1 ELSE 0
    /\ last = NoCall
    /\ remote = NoRemote
    /\ tasks = [t \in 1..MaxTasks |-> [pc |-> "called", found |-> "unread", ans |-> "none"]]
    /\ LoggingConfig = LoggingConfigClass

\* Variant of CallCheck under a lock held from the test of the handle to its
\* assignment: no call tests the handle while another is in between.
CallCheckLocked(t) ==
    /\ tasks[t].pc = "called"
    /\ \A u \in 1..MaxTasks : tasks[u].pc # "authenticate"
    /\ tasks' = [tasks EXCEPT ![t].pc = IF adapter.client THEN "body" ELSE "authenticate",
                              ![t].found = IF adapter.client THEN "set" ELSE "unset"]
    /\ authCalls' = IF adapter.client THEN authCalls ELSE authCalls + 1
    /\ UNCHANGED <<adapter, last, remote, LoggingConfig>>

\* if not self.client: await self.authenticate()
\* The call reads the handle; it invokes authenticate when the handle is unset.
CallCheck(t) ==
    /\ tasks[t].pc = "called"
    /\ tasks' = [tasks EXCEPT ![t].pc = IF adapter.client THEN "body" ELSE "authenticate",
                              ![t].found = IF adapter.client THEN "set" ELSE "unset"]
    /\ authCalls' = IF adapter.client THEN authCalls ELSE authCalls + 1
    /\ UNCHANGED <<adapter, last, remote, LoggingConfig>>

\* authenticate() up to the assignment of self.client: without a token, or
\* when the SDK client cannot be constructed, it raises and assigns nothing.
CallAuthenticate(t) ==
    /\ tasks[t].pc = "authenticate"
    /\ \E ans \in AuthAnswers :
          LET r == authenticate([adapter EXCEPT !.client = FALSE, !.authed = FALSE], ans)
          IN  /\ adapter' = [adapter EXCEPT !.client = @ \/ r.a.client]
              /\ tasks' = [tasks EXCEPT ![t].pc = IF r.a.client THEN "verify" ELSE "raised",
                                        ![t].ans = ans]
    /\ UNCHANGED <<authCalls, last, remote, LoggingConfig>>

\* authenticate() from the verifying call on: self._authenticated = True when
\* it succeeds, else AuthenticationError or NetworkError.
CallVerify(t) ==
    /\ tasks[t].pc = "verify"
    /\ LET r == authenticate([adapter EXCEPT !.client = FALSE, !.authed = FALSE],
                             tasks[t].ans)
       IN  /\ adapter' = [adapter EXCEPT !.authed = @ \/ r.a.authed]
           /\ tasks' = [tasks EXCEPT ![t].pc = IF r.a.authed THEN "body" ELSE "raised"]
    /\ UNCHANGED <<authCalls, last, remote, LoggingConfig>>

\* Variant of CallBody that drops the client handle when the body raises.
CallBodyDropsHandle(t) ==
    /\ tasks[t].pc = "body"
    /\ \E w \in DrawnWorlds(adapter.platform, {"project", "conv"}) :
          LET m == IF adapter.platform = "github"
                   THEN GitHubGetProject([project_id |-> SampleProjectId], w)
                   ELSE GitLabGetProject([project_id |-> SampleProjectId], w)
          IN  /\ tasks' = [tasks EXCEPT ![t].pc = IF m.res.kind = "return"
                                                  THEN "returned" ELSE "raised"]
              /\ adapter' = [adapter EXCEPT !.client = @ /\ m.res.kind = "return"]
    /\ UNCHANGED <<authCalls, last, remote, LoggingConfig>>

\* The try block of get_project: native calls through self.client, then the
\* resource or None is returned or an error is raised.  It assigns no
\* attribute of the instance.
CallBody(t) ==
    /\ tasks[t].pc = "body"
    /\ \E w \in DrawnWorlds(adapter.platform, {"project", "conv"}) :
          LET m == IF adapter.platform = "github"
                   THEN GitHubGetProject([project_id |-> SampleProjectId], w)
                   ELSE GitLabGetProject([project_id |-> SampleProjectId], w)
          IN  tasks' = [tasks EXCEPT ![t].pc = IF m.res.kind = "return"
                                               THEN "returned" ELSE "raised"]
    /\ UNCHANGED <<adapter, authCalls, last, remote, LoggingConfig>>

NextConcurrent ==
    \E t \in 1..MaxTasks :
        CallCheck(t) \/ CallAuthenticate(t) \/ CallVerify(t) \/ CallBody(t)

SpecConcurrent == InitConcurrent /\ [][NextConcurrent]_vars

\* C26: two public method calls running concurrently on a freshly
\* constructed instance can both invoke authenticate, because nothing
\* serialises the test of the client handle with its assignment: a call that
\* has not yet tested the handle can always do so, whatever the other calls
\* are in the middle of, and authenticate has been invoked once for every
\* call that read the handle as unset.
C26_NothingSerialisesAuthenticate ==
    /\ \A t \in 1..MaxTasks : tasks[t].pc = "called" => ENABLED CallCheck(t)
    /\ authCalls = (IF adapter.client /\ \A t \in 1..MaxTasks : tasks[t].found # "unset"
                    THEN 1 ELSE 0)
                       + Cardinality({t \in 1..MaxTasks : tasks[t].found = "unset"})

\* Witness of C26: of two calls on a fresh instance both invoked authenticate
\* and both returned, which needs the second test of the handle to come
\* before the first assignment.
C26_Witness ==
    /\ authCalls = 2
    /\ \A t \in 1..2 : tasks[t].found = "unset" /\ tasks[t].pc = "returned"

InitLogging ==
    /\ adapter = NewAdapter("github", TRUE)
    /\ authCalls = 0
    /\ last = NoCall
    /\ remote = NoRemote
    /\ tasks = [t \in 1..MaxThreads |-> [pc |-> "new", got |-> 0]]
    /\ LoggingConfig = LoggingConfigClass

\* if cls._instance is None:
NewCheck(t) ==
    /\ tasks[t].pc = "new"
    /\ tasks' = [tasks EXCEPT ![t].pc = IF LoggingConfig.instance = 0
                                        THEN "create" ELSE "return"]
    /\ UNCHANGED <<adapter, authCalls, last, remote, LoggingConfig>>

\* cls._instance = super().__new__(cls)
NewCreate(t) ==
    /\ tasks[t].pc = "create"
    /\ LoggingConfig' = [LoggingConfig EXCEPT !.made = @ + 1,
                                                   !.instance = LoggingConfig.made + 1]
    /\ tasks' = [tasks EXCEPT ![t].pc = "return"]
    /\ UNCHANGED <<adapter, authCalls, last, remote>>

\* return cls._instance
NewReturn(t) ==
    /\ tasks[t].pc = "return"
    /\ tasks' = [tasks EXCEPT ![t].pc = "init", ![t].got = LoggingConfig.instance]
    /\ UNCHANGED <<adapter, authCalls, last, remote, LoggingConfig>>

\* __init__: if not self._initialized:
ConfigInitCheck(t) ==
    /\ tasks[t].pc = "init"
    /\ tasks' = [tasks EXCEPT ![t].pc = IF LoggingConfig.initialized
                                        THEN "done" ELSE "setup"]
    /\ UNCHANGED <<adapter, authCalls, last, remote, LoggingConfig>>

\* __init__: console, logger, _setup_logging(); LoggingConfig._initialized = True
ConfigSetup(t) ==
    /\ tasks[t].pc = "setup"
    /\ LoggingConfig' = [LoggingConfig EXCEPT !.initialized = TRUE]
    /\ tasks' = [tasks EXCEPT ![t].pc = "done"]
    /\ UNCHANGED <<adapter, authCalls, last, remote>>

NextLogging ==
    \E t \in 1..MaxThreads :
        \/ NewCheck(t) \/ NewCreate(t) \/ NewReturn(t)
        \/ ConfigInitCheck(t) \/ ConfigSetup(t)

SpecLogging == InitLogging /\ [][NextLogging]_vars

\* C28 (as stated): however many threads construct LoggingConfig
\* concurrently, and under every interleaving of their steps, all of them
\* obtain the same instance.
C28_OneInstance ==
    \A t, u \in 1..MaxThreads :
        (tasks[t].got # 0 /\ tasks[u].got # 0) => tasks[t].got = tasks[u].got

====
